---- MODULE Spec2Model ----
(***************************************************************************)
(* A model of tools/analyze_ootp_data.py: the rating -> stat formula       *)
(* analyzer (FormulaAnalyzer, the two BABIP scale converters and main).    *)
(*                                                                         *)
(* Numbers.  Python floats are modelled as exact rationals [n, d] in       *)
(* lowest terms, so floating-point rounding error is not represented.      *)
(* The special floats nan and inf are separate cell kinds.                 *)
(*                                                                         *)
(* Library calls.  pandas and scikit-learn are not part of the repository; *)
(* the operators that stand for their calls follow the documented          *)
(* behaviour of those calls on the tables the model generates (integer     *)
(* cells, at most one input rating that varies between rows).              *)
(***************************************************************************)
EXTENDS Integers, Sequences, FiniteSets, TLC

(***************************************************************************)
(* Bounds of the model.                                                    *)
(***************************************************************************)
\* the largest number of data rows of a generated CSV file
MaxRows == 2

(***************************************************************************)
(* Module constants.                                                       *)
(***************************************************************************)
INPUT_COLS == <<"stuff", "control", "hra", "movement", "babip">>

OUTPUT_COLS == <<"hits allowed", "hr", "bb", "k", "ip">>

(***************************************************************************)
(* Small helpers.                                                          *)
(***************************************************************************)
Range(s) == {s[i] : i \in DOMAIN s}

Abs(x) == IF x < 0 THEN -x ELSE x

RECURSIVE GCD(_, _)
GCD(a, b) == IF b = 0 THEN a ELSE GCD(b, a % b)

RECURSIVE SumSeq(_)
SumSeq(s) == IF s = <<>> THEN 0 ELSE Head(s) + SumSeq(Tail(s))

\* the index of name c in the sequence cols (0 when absent)
ColIndex(cols, c) ==
    IF c \in Range(cols) THEN CHOOSE i \in DOMAIN cols : cols[i] = c ELSE 0

(***************************************************************************)
(* Exact rationals standing for finite floats.                             *)
(***************************************************************************)
Rat(n, d) ==
    LET g == GCD(Abs(n), Abs(d))
        s == IF d < 0 THEN -1 ELSE 1
    IN  [n |-> (s * n) \div g, d |-> (s * d) \div g]

RInt(i) == [n |-> i, d |-> 1]

RAdd(a, b) ==
    LET g == GCD(a.d, b.d)
    IN  Rat(a.n * (b.d \div g) + b.n * (a.d \div g), (a.d \div g) * b.d)

RNeg(a) == [n |-> -a.n, d |-> a.d]

RSub(a, b) == RAdd(a, RNeg(b))

RMul(a, b) ==
    LET g1 == GCD(Abs(a.n), b.d)
        g2 == GCD(Abs(b.n), a.d)
        h1 == IF g1 = 0 THEN 1 ELSE g1
        h2 == IF g2 = 0 THEN 1 ELSE g2
    IN  Rat((a.n \div h1) * (b.n \div h2), (a.d \div h2) * (b.d \div h1))

\* a / b for b # 0
RDiv(a, b) == RMul(a, Rat(b.d, b.n))

RAbs(a) == [n |-> Abs(a.n), d |-> a.d]

RLess(a, b) == a.n * b.d < b.n * a.d

RECURSIVE RSum(_)
RSum(s) == IF s = <<>> THEN RInt(0) ELSE RAdd(Head(s), RSum(Tail(s)))

Pow10(dec) == IF dec = 0 THEN 1 ELSE IF dec = 1 THEN 10 ELSE IF dec = 2 THEN 100
              ELSE IF dec = 3 THEN 1000 ELSE 10000

\* Python's fixed-point formatting f"{r:.<dec>f}" of a finite float: the sign
\* and the magnitude in units of 10^-dec, rounded to nearest (an exact tie
\* goes to the even neighbour)
FormatFixed(r, dec) ==
    LET num == Abs(r.n) * Pow10(dec)
        q   == num \div r.d
        rem == num % r.d
        up  == (2 * rem > r.d) \/ (2 * rem = r.d /\ q % 2 = 1)
    IN  [k |-> "num", neg |-> r.n < 0, mag |-> IF up THEN q + 1 ELSE q,
         dec |-> dec]

\* a float result that may be nan (r is meaningful when k = "num")
FNum(r) == [k |-> "num", r |-> r]

FNaN == [k |-> "nan", r |-> [n |-> 0, d |-> 1]]

\* f"{x:.<dec>f}" of a float that may be nan: Python prints "nan"
FormatFloat(x, dec) ==
    IF x.k = "nan" THEN [k |-> "nan", neg |-> FALSE, mag |-> 0, dec |-> dec]
    ELSE FormatFixed(x.r, dec)

(***************************************************************************)
(* The BABIP scale converters, lines 25-31.                                *)
(***************************************************************************)
\* the map held inside the UI scale, 20 to 80
convert_babip_to_ui_clamped(babip_editor) ==
    LET ui == RAdd(RInt(20),
                   RDiv(RMul(RSub(babip_editor, RInt(1)), RInt(60)), RInt(249)))
    IN  IF RLess(ui, RInt(20)) THEN RInt(20)
        ELSE IF RLess(RInt(80), ui) THEN RInt(80) ELSE ui

\* 20 + (babip_editor - 1) * 60 / 249
convert_babip_to_ui(babip_editor) ==
    RAdd(RInt(20), RDiv(RMul(RSub(babip_editor, RInt(1)), RInt(60)), RInt(249)))

\* the inverse map with the editor scale's upper end, 250, for its span
convert_babip_to_editor_250(babip_ui) ==
    RAdd(RInt(1), RDiv(RMul(RSub(babip_ui, RInt(20)), RInt(250)), RInt(60)))

\* 1 + (babip_ui - 20) * 249 / 60
convert_babip_to_editor(babip_ui) ==
    RAdd(RInt(1), RDiv(RMul(RSub(babip_ui, RInt(20)), RInt(249)), RInt(60)))

(***************************************************************************)
(* Cells.  A CSV cell is a token: a sequence of characters.  A data-frame  *)
(* cell is a string (object dtype), a finite number, inf or nan.           *)
(***************************************************************************)
NaN == [k |-> "nan", v |-> 0, s |-> <<>>]

Inf == [k |-> "inf", v |-> 0, s |-> <<>>]

Num(i) == [k |-> "num", v |-> i, s |-> <<>>]

Str(tok) == [k |-> "str", v |-> 0, s |-> tok]

Digits == {"0", "1", "2", "3", "4", "5", "6", "7", "8", "9"}

DigitVal(c) ==
    CASE c = "0" -> 0 [] c = "1" -> 1 [] c = "2" -> 2 [] c = "3" -> 3
      [] c = "4" -> 4 [] c = "5" -> 5 [] c = "6" -> 6 [] c = "7" -> 7
      [] c = "8" -> 8 [] c = "9" -> 9

IsDigits(tok) == Len(tok) > 0 /\ \A i \in DOMAIN tok : tok[i] \in Digits

RECURSIVE ParseDigits(_)
ParseDigits(tok) ==
    IF tok = <<>> THEN 0
    ELSE 10 * ParseDigits(SubSeq(tok, 1, Len(tok) - 1)) + DigitVal(tok[Len(tok)])

\* pd.to_numeric(..., errors='ignore') on one cell: a string that spells no
\* number stays as it is
ToNumericCellIgnore(c) ==
    IF c.k # "str" THEN c
    ELSE IF IsDigits(c.s) THEN Num(ParseDigits(c.s))
    ELSE IF Len(c.s) > 1 /\ c.s[1] = "-" /\ IsDigits(Tail(c.s))
         THEN Num(-ParseDigits(Tail(c.s)))
    ELSE IF c.s = <<"i", "n", "f">> THEN Inf
    ELSE c

\* pd.to_numeric(..., errors='coerce') on one cell: a string that spells a
\* number becomes that number, any other string becomes nan; numbers and nan
\* stay
ToNumericCell(c) ==
    IF c.k # "str" THEN c
    ELSE IF IsDigits(c.s) THEN Num(ParseDigits(c.s))
    ELSE IF Len(c.s) > 1 /\ c.s[1] = "-" /\ IsDigits(Tail(c.s))
         THEN Num(-ParseDigits(Tail(c.s)))
    ELSE IF c.s = <<"i", "n", "f">> THEN Inf
    ELSE NaN

(***************************************************************************)
(* The table loader: FormulaAnalyzer.__init__, lines 36-40.  A frame is    *)
(* [columns: sequence of names, data: sequence of rows], a row being a     *)
(* sequence of cells aligned with columns.                                 *)
(***************************************************************************)
\* pd.read_csv: the header row names the columns; an empty field is nan
ReadCsv(file) ==
    [columns |-> file.header,
     data    |-> [i \in DOMAIN file.rows |->
                    [j \in DOMAIN file.header |->
                        IF file.rows[i][j] = <<>> THEN NaN
                        ELSE Str(file.rows[i][j])]]]

\* df.dropna(how='all'): drop the rows whose cells are all nan
DropNaAll(frame) ==
    [frame EXCEPT !.data =
        SelectSeq(frame.data, LAMBDA r : \E j \in DOMAIN r : r[j].k # "nan")]

\* df.apply(pd.to_numeric, errors='coerce'): column by column, every cell
ApplyToNumeric(frame) ==
    [frame EXCEPT !.data =
        [i \in DOMAIN frame.data |->
            [j \in DOMAIN frame.data[i] |-> ToNumericCell(frame.data[i][j])]]]

\* a dropna that only drops the rows that are nan throughout
DropNaOnlyBlank(frame) ==
    [frame EXCEPT !.data =
        SelectSeq(frame.data, LAMBDA r : \E j \in DOMAIN r : r[j].k # "nan")]

\* df.dropna(): drop the rows that hold at least one nan
DropNa(frame) ==
    [frame EXCEPT !.data =
        SelectSeq(frame.data, LAMBDA r : \A j \in DOMAIN r : r[j].k # "nan")]

LoadTable(file) == DropNa(ApplyToNumeric(DropNaAll(ReadCsv(file))))

\* df[c].values: the column named c
Column(frame, c) ==
    [i \in DOMAIN frame.data |-> frame.data[i][ColIndex(frame.columns, c)]]

\* Series.min() / Series.max(): nan cells are skipped; nan when nothing is
\* left
ColMin(col) ==
    LET nums == {col[i].v : i \in {j \in DOMAIN col : col[j].k = "num"}}
    IN  IF nums # {} THEN Num(CHOOSE m \in nums : \A x \in nums : m <= x)
        ELSE IF \E i \in DOMAIN col : col[i].k = "inf" THEN Inf
        ELSE NaN

ColMax(col) ==
    LET nums == {col[i].v : i \in {j \in DOMAIN col : col[j].k = "num"}}
    IN  IF \E i \in DOMAIN col : col[i].k = "inf" THEN Inf
        ELSE IF nums # {} THEN Num(CHOOSE m \in nums : \A x \in nums : m >= x)
        ELSE NaN

(***************************************************************************)
(* scikit-learn, as FormulaAnalyzer calls it.  X is given by columns: a    *)
(* sequence of columns, each a sequence of cells; y is one column.         *)
(***************************************************************************)
Finite(col) == \A i \in DOMAIN col : col[i].k = "num"

Vals(col) == [i \in DOMAIN col |-> col[i].v]

Dot(a, b) == SumSeq([i \in DOMAIN a |-> a[i] * b[i]])

\* n * sum(x*y) - sum(x) * sum(y): n^2 times the covariance of xs and ys
Sxy(xs, ys) == Len(xs) * Dot(xs, ys) - SumSeq(xs) * SumSeq(ys)

\* check_X_y of LinearRegression.fit / Ridge.fit: at least one sample and no
\* inf or nan in X or y, else ValueError
ValidXy(X, y) == Len(y) >= 1 /\ Finite(y) /\ \A j \in DOMAIN X : Finite(X[j])

\* a fit that takes the mean of y for its intercept
LinearRegressionFitMeanIntercept(X, y) ==
    IF ~ValidXy(X, y) THEN [ok |-> FALSE, error |-> "ValueError"]
    ELSE
      LET n    == Len(y)
          ys   == Vals(y)
          coef == [j \in DOMAIN X |->
                     LET xs == Vals(X[j])
                     IN  IF Sxy(xs, xs) > 0 THEN Rat(Sxy(xs, ys), Sxy(xs, xs))
                         ELSE RInt(0)]
      IN  [ok |-> TRUE, coef_ |-> coef, intercept_ |-> Rat(SumSeq(ys), n)]

\* LinearRegression().fit(X, y): ordinary least squares with an intercept,
\* the minimum-norm solution when X is rank deficient.  A column that is
\* constant gets coefficient 0; with at most one column that varies (the
\* tables of this model) the coefficient of that column is cov(x,y)/var(x).
LinearRegressionFit(X, y) ==
    IF ~ValidXy(X, y) THEN [ok |-> FALSE, error |-> "ValueError"]
    ELSE
      LET n    == Len(y)
          ys   == Vals(y)
          coef == [j \in DOMAIN X |->
                     LET xs == Vals(X[j])
                     IN  IF Sxy(xs, xs) > 0 THEN Rat(Sxy(xs, ys), Sxy(xs, xs))
                         ELSE RInt(0)]
          icpt == RSub(Rat(SumSeq(ys), n),
                       RSum([j \in DOMAIN X |->
                               RMul(coef[j], Rat(SumSeq(Vals(X[j])), n))]))
      IN  [ok |-> TRUE, coef_ |-> coef, intercept_ |-> icpt]

\* model.predict on one sample xs (a sequence of integers)
PredictOne(model, xs) ==
    RAdd(model.intercept_,
         RSum([j \in DOMAIN xs |-> RMul(model.coef_[j], RInt(xs[j]))]))

\* model.predict(X) for X given by columns
Predict(model, X, n) ==
    [i \in 1..n |-> PredictOne(model, [j \in DOMAIN X |-> X[j][i].v])]

\* sklearn.metrics.r2_score: nan below two samples; for a constant y, 1.0
\* when the prediction is perfect and 0.0 otherwise
R2Score(y, pred) ==
    LET n     == Len(y)
        ys    == Vals(y)
        ssres == RSum([i \in 1..n |->
                    RMul(RSub(RInt(ys[i]), pred[i]), RSub(RInt(ys[i]), pred[i]))])
        sstot == Rat(Sxy(ys, ys), n)
    IN  IF n < 2 THEN FNaN
        ELSE IF sstot.n = 0
             THEN (IF ssres.n = 0 THEN FNum(RInt(1)) ELSE FNum(RInt(0)))
        ELSE FNum(RSub(RInt(1), RDiv(ssres, sstot)))

\* sklearn.metrics.mean_absolute_error
MeanAbsoluteError(y, pred) ==
    LET n == Len(y)
    IN  FNum(RMul(RSum([i \in 1..n |-> RAbs(RSub(RInt(y[i].v), pred[i]))]),
                  Rat(1, n)))

\* the exponent vectors of PolynomialFeatures(degree=2, include_bias=False)
\* on nf inputs, in scikit-learn's order: the nf single inputs, then the
\* products x_a * x_b for a <= b
RECURSIVE PairsFrom(_, _, _)
PairsFrom(a, b, nf) ==
    IF a > nf THEN <<>>
    ELSE IF b > nf THEN PairsFrom(a + 1, a + 1, nf)
    ELSE <<[j \in 1..nf |-> (IF j = a THEN 1 ELSE 0) + (IF j = b THEN 1 ELSE 0)]>>
         \o PairsFrom(a, b + 1, nf)

\* the expansion with include_bias=True: the constant feature comes first
PolynomialFeaturesWithBias(nf) ==
    <<[j \in 1..nf |-> 0]>>
    \o [a \in 1..nf |-> [j \in 1..nf |-> IF j = a THEN 1 ELSE 0]]
    \o PairsFrom(1, 1, nf)

PolynomialFeatures(nf) ==
    [a \in 1..nf |-> [j \in 1..nf |-> IF j = a THEN 1 ELSE 0]]
    \o PairsFrom(1, 1, nf)

(***************************************************************************)
(* Python dicts (insertion ordered) as sequences of [key, val] entries.    *)
(***************************************************************************)
DictKeys(d) == {d[i].key : i \in DOMAIN d}

DictGet(d, k) == d[CHOOSE i \in DOMAIN d : d[i].key = k].val

DictPut(d, k, v) ==
    IF k \in DictKeys(d)
    THEN [i \in DOMAIN d |-> IF d[i].key = k THEN [key |-> k, val |-> v] ELSE d[i]]
    ELSE Append(d, [key |-> k, val |-> v])

(***************************************************************************)
(* FormulaAnalyzer's methods as functions of the table.                    *)
(***************************************************************************)
\* the regularization strength of Ridge(alpha=1.0)
RIDGE_ALPHA == 1

\* the negligibility threshold 0.001 of format_formula, as 1 / NEGLIGIBLE_INV
NEGLIGIBLE_INV == 1000

HasCols(frame, cols) == \A i \in DOMAIN cols : cols[i] \in Range(frame.columns)

\* self.df[INPUT_COLS].values, by columns
InputMatrix(frame) == [j \in DOMAIN INPUT_COLS |-> Column(frame, INPUT_COLS[j])]

\* analyze_linear: KeyError when an input column is missing, ValueError when
\* the fit rejects the data, else (model, r2, mae)
AnalyzeLinear(frame, output_col) ==
    IF ~HasCols(frame, INPUT_COLS) THEN [ok |-> FALSE, error |-> "KeyError"]
    ELSE
      LET X   == InputMatrix(frame)
          y   == Column(frame, output_col)
          fit == LinearRegressionFit(X, y)
      IN  IF ~fit.ok THEN [ok |-> FALSE, error |-> fit.error]
          ELSE LET pred == Predict(fit, X, Len(y))
               IN  [ok |-> TRUE, error |-> "",
                    model |-> [coef_ |-> fit.coef_, intercept_ |-> fit.intercept_],
                    r2 |-> R2Score(y, pred), mae |-> MeanAbsoluteError(y, pred)]

\* analyze_polynomial: the same inputs expanded by PolynomialFeatures and
\* fitted by Ridge.  The numeric ridge solution (and so its r2 and mae) is
\* not represented: the model keeps the feature list, alpha and Ridge's
\* default fit_intercept=True.
AnalyzePolynomial(frame, output_col) ==
    IF ~HasCols(frame, INPUT_COLS) THEN [ok |-> FALSE, error |-> "KeyError"]
    ELSE IF ~ValidXy(InputMatrix(frame), Column(frame, output_col))
         THEN [ok |-> FALSE, error |-> "ValueError"]
    ELSE [ok |-> TRUE, error |-> "",
          model |-> [alpha |-> RIDGE_ALPHA, fit_intercept |-> TRUE,
                     n_features |-> Len(PolynomialFeatures(Len(INPUT_COLS)))],
          poly |-> PolynomialFeatures(Len(INPUT_COLS))]

\* the test without abs(): coef > 0.001
ShownTermNoAbs(coef) == RLess(Rat(1, NEGLIGIBLE_INV), coef)

\* format_formula's test for a term that is shown
ShownTerm(coef) == RLess(Rat(1, NEGLIGIBLE_INV), RAbs(coef))

\* format_formula's sign of a shown term
TermSign(coef) == IF RLess(RInt(0), coef) THEN "+" ELSE "-"

RECURSIVE FormulaTerms(_, _)
FormulaTerms(coeffs, i) ==
    IF i > Len(INPUT_COLS) THEN <<>>
    ELSE (IF ShownTerm(coeffs[i])
          THEN <<[sign |-> TermSign(coeffs[i]),
                  mag  |-> FormatFixed(RAbs(coeffs[i]), 4),
                  col  |-> INPUT_COLS[i]]>>
          ELSE <<>>)
         \o FormulaTerms(coeffs, i + 1)

\* format_formula: "<name> = <intercept:.2f> <sign> <|coef|:.4f>*<col> ..."
FormatFormula(model, output_name) ==
    [name      |-> output_name,
     intercept |-> FormatFixed(model.intercept_, 2),
     terms     |-> FormulaTerms(model.coef_, 1)]

\* analyze_single_variable_effects: per input rating the one-variable fit's
\* coefficient and its direction (the printed correlation, a square root,
\* is not represented)
SingleVariableEffects(frame, output_col) ==
    [j \in DOMAIN INPUT_COLS |->
        LET fit == LinearRegressionFit(<<Column(frame, INPUT_COLS[j])>>,
                                       Column(frame, output_col))
        IN  [col       |-> INPUT_COLS[j],
             coef      |-> FormatFixed(fit.coef_[1], 3),
             direction |-> IF RLess(RInt(0), fit.coef_[1]) THEN "UP" ELSE "DOWN",
             per       |-> FormatFixed(RAbs(fit.coef_[1]), 2)]]

(***************************************************************************)
(* The state of one run of main().                                         *)
(***************************************************************************)
VARIABLES
    csv,       \* the input file: [exists, header, rows of tokens]
    pc,        \* main's position
    df,        \* self.df
    formulas,  \* self.formulas
    models,    \* self.models
    results,   \* run_analysis's local list
    idx,       \* run_analysis's position in OUTPUT_COLS
    tests,     \* the number of test_prediction calls main has made
    exc,       \* the uncaught exception that ended the run, if any
    out,       \* standard output: the sequence of printed items
    cvOrig,    \* converters: the value the calls started from
    cvVal,     \* converters: the value after the calls made so far
    cvPath,    \* converters: the calls made so far, oldest first
    fmModel,   \* format_formula: the model passed in
    fmOut,     \* format_formula: the formula returned (<<>> before the call)
    regions,      \* collector: self.regions, the list of Region objects
    tree,         \* collector: the rows of self.tree, top to bottom
    csv_file,     \* collector: self.csv_file ("" while not set)
    entry_count,  \* collector: self.entry_count
    disk,         \* collector: the CSV files of the file system, by path
    after,        \* collector: log_entry callbacks scheduled by root.after
    stacks,       \* collector: the log_entry calls under way, per thread
    logged,       \* collector: the rows log_entry appended, with their file
    snap_files,   \* analyze_merged: the four snapshot CSV files
    mgPc,         \* analyze_merged: the script's position
    snap_2010,    \* analyze_merged: snap_2010, pid -> Player
    snap_2017,    \* analyze_merged: snap_2017, pid -> Player
    merged,       \* analyze_merged: merged, pid -> Player
    mgPos,        \* analyze_merged: the items a merge loop has gone through
    stat_files,        \* career WAR: the stats files, by directory and year
    players_2010,      \* career WAR: pitchers_2010.csv and batters_2010.csv
    warPc,             \* career WAR: the scripts' position
    pitching_war,      \* analyze_2010: pitching_war, pid -> WAR
    pitching_seasons,  \* analyze_2010: pitching_seasons, pid -> count
    batting_war,       \* analyze_2010: batting_war
    batting_seasons,   \* analyze_2010: batting_seasons
    all_players,       \* analyze_2010: all_players
    seen_ids,          \* analyze_2010: seen_ids
    career_war,         \* analyze_merged: what load_career_war returned
    scPc,       \* draft_pick_value: the script's position
    year,       \* draft_pick_value: the loop variable year
    all_picks,  \* draft_pick_value: all_picks
    scOut,      \* draft_pick_value: the lines printed
    fetched,     \* draft_pick_value: the requests urlopen got, with its answers
    draft_files,    \* analyze_drafts.py: the seven CSV exports with WAR, by file name
    adPc,           \* analyze_drafts.py: the section of the script reached
    draft_players,  \* analyze_drafts.py: all_players, the players loaded with a WAR
    adOut,          \* analyze_drafts.py: the lines of statistics printed
    adExc,           \* analyze_drafts.py: the exception that ended the script, "" for none
    group,  \* the list of players handed to a statistics line
    stPc,   \* the statistics line being formatted
    stOut   \* the statistics lines formatted for the list

mainVars == <<csv, pc, df, formulas, models, results, idx, tests, exc, out>>

cvVars == <<cvOrig, cvVal, cvPath>>

fmVars == <<fmModel, fmOut>>

ocVars ==
    <<regions, tree, csv_file, entry_count, disk, after, stacks, logged>>

mgVars == <<snap_files, mgPc, snap_2010, snap_2017, merged, mgPos>>

warVars ==
    <<stat_files, players_2010, warPc, pitching_war, pitching_seasons,
      batting_war, batting_seasons, all_players, seen_ids, career_war>>

scVars ==
    <<scPc, year, all_picks, scOut, fetched>>

adVars ==
    <<draft_files, adPc, draft_players, adOut, adExc>>

stVars ==
    <<group, stPc, stOut>>

\* the variables of the draft-data scripts
drVars == <<mgVars, warVars, scVars, adVars, stVars>>

vars == <<mainVars, cvVars, fmVars, ocVars, drVars>>

\* what the steps of one draft-data script leave alone: the other scripts
mgOthers == <<mainVars, cvVars, fmVars, ocVars, warVars, scVars, adVars, stVars>>

warOthers == <<mainVars, cvVars, fmVars, ocVars, mgVars, scVars, adVars, stVars>>

scOthers == <<mainVars, cvVars, fmVars, ocVars, mgVars, warVars, adVars, stVars>>

\* everything but the variables of analyze_drafts.py
adOthers == <<mainVars, cvVars, fmVars, ocVars, mgVars, warVars, scVars, stVars>>

\* everything but the variables of the statistics lines
stOthers == <<mainVars, cvVars, fmVars, ocVars, mgVars, warVars, scVars, adVars>>

Ev(ev, stat, data) == [ev |-> ev, stat |-> stat, data |-> data]

NoException == [type |-> "", stat |-> "", at |-> ""]

NoFrame == [columns |-> <<>>, data |-> <<>>]

NoModel == [coef_ |-> <<>>, intercept_ |-> RInt(0)]

\* the three test_prediction calls of main, lines 243-247
TEST_RATINGS == <<<<50, 50, 50, 50, 125>>, <<80, 80, 80, 80, 220>>,
                  <<20, 20, 20, 20, 30>>>>

(***************************************************************************)
(* The input files of the model.  A row pattern gives a token to every     *)
(* column name; a file keeps the tokens of the columns of its header.      *)
(* Among the input ratings only "stuff" varies between rows, and "ip" is   *)
(* twice "stuff" plus three in every row pattern.                          *)
(***************************************************************************)
ALL_COLS == INPUT_COLS \o OUTPUT_COLS

Without(c) == SelectSeq(ALL_COLS, LAMBDA x : x # c)

Headers ==
    {ALL_COLS, Without("babip"), Without("hr"), ALL_COLS \o <<"notes">>,
     <<"stuff", "control", "hra", "movement">>}

ColNames == Range(ALL_COLS) \cup {"notes"}

\* the token of 2 * s + 3 for the "stuff" tokens of the row patterns
TwiceStuffPlusThree(s) ==
    CASE s = <<"1">> -> <<"5">>
      [] s = <<"2">> -> <<"7">>
      [] s = <<"3">> -> <<"9">>
      [] OTHER -> <<"3">>

BaseRow(s, y) ==
    [c \in ColNames |->
        CASE c = "stuff" -> s
          [] c = "control" -> <<"2">>
          [] c = "hra" -> <<"2">>
          [] c = "movement" -> <<"3">>
          [] c = "babip" -> <<"1", "2", "5">>
          [] c = "hits allowed" -> y
          [] c = "hr" -> <<"1">>
          [] c = "bb" -> s
          [] c = "k" -> y
          [] c = "ip" -> TwiceStuffPlusThree(s)
          [] OTHER -> <<"7">>]

GoodRows ==
    {BaseRow(s, y) : s \in {<<"1">>, <<"3">>}, y \in {<<"-", "1">>, <<"2">>}}

Defects ==
    {<<"stuff", <<>>>>, <<"stuff", <<"i", "n", "f">>>>,
     <<"hr", <<"i", "n", "f">>>>, <<"hr", <<"1", "x">>>>, <<"notes", <<"x">>>>}

DefectRows == {[BaseRow(<<"2">>, <<"2">>) EXCEPT ![d[1]] = d[2]] : d \in Defects}

BlankRow == [c \in ColNames |-> <<>>]

RowPatterns == GoodRows \cup DefectRows \cup {BlankRow}

NoFile == [exists |-> FALSE, header |-> <<>>, rows |-> <<>>]

Files ==
    {NoFile} \cup
    UNION {{[exists |-> TRUE, header |-> h,
             rows   |-> [i \in 1..n |-> [j \in DOMAIN h |-> pat[i][h[j]]]]] :
              h \in Headers, pat \in [1..n -> RowPatterns]} : n \in 0..MaxRows}

\* before main runs
MainStart ==
    /\ pc = "start"
    /\ df = NoFrame
    /\ formulas = <<>>
    /\ models = <<>>
    /\ results = <<>>
    /\ idx = 0
    /\ tests = 0
    /\ exc = NoException
    /\ out = <<>>

\* no converter call is under way
CvIdle == cvOrig = RInt(0) /\ cvVal = RInt(0) /\ cvPath = <<>>

\* no format_formula call is under way
FmIdle == fmModel = NoModel /\ fmOut = <<>>

\* the data collector is not running
OcIdle ==
    /\ regions = <<>>
    /\ tree = <<>>
    /\ csv_file = ""
    /\ entry_count = 0
    /\ disk = <<>>
    /\ after = 0
    /\ stacks = <<>>
    /\ logged = <<>>

\* analyze_merged.py is not run
MgIdle ==
    /\ snap_files = <<>>
    /\ mgPc = "idle"
    /\ snap_2010 = <<>>
    /\ snap_2017 = <<>>
    /\ merged = <<>>
    /\ mgPos = 0

\* the career WAR tables are not built
WarIdle ==
    /\ stat_files = <<>>
    /\ players_2010 = <<>>
    /\ warPc = "idle"
    /\ pitching_war = <<>>
    /\ pitching_seasons = <<>>
    /\ batting_war = <<>>
    /\ batting_seasons = <<>>
    /\ all_players = <<>>
    /\ seen_ids = {}
    /\ career_war = <<>>

\* draft_pick_value.py is not run
ScIdle ==
    /\ scPc = "idle"
    /\ year = 0
    /\ all_picks = <<>>
    /\ scOut = <<>>
    /\ fetched = <<>>

\* analyze_drafts.py is not run
AdIdle ==
    /\ draft_files = <<>>
    /\ adPc = "idle"
    /\ draft_players = <<>>
    /\ adOut = <<>>
    /\ adExc = ""

\* no statistics line is formatted for a list of its own
StIdle ==
    /\ group = <<>>
    /\ stPc = "idle"
    /\ stOut = <<>>

\* no draft-data script is run
DrIdle == MgIdle /\ WarIdle /\ ScIdle /\ AdIdle /\ StIdle

Init == csv \in Files /\ MainStart /\ CvIdle /\ FmIdle /\ OcIdle /\ DrIdle

(***************************************************************************)
(* main, step by step.                                                     *)
(***************************************************************************)
\* the "Input ranges" lines of __init__: one per input column of the table
RangeLines(frame) ==
    LET present == SelectSeq(INPUT_COLS, LAMBDA c : c \in Range(frame.columns))
    IN  [i \in DOMAIN present |->
            Ev("range", present[i],
               <<ColMin(Column(frame, present[i])),
                 ColMax(Column(frame, present[i]))>>)]

\* FormulaAnalyzer.__init__ on a file that can be read
Load ==
    /\ pc = "start"
    /\ csv.exists
    /\ df' = LoadTable(csv)
    /\ formulas' = <<>>
    /\ models' = <<>>
    /\ out' = out \o <<Ev("loaded", "", Len(df'.data))>> \o RangeLines(df')
    /\ pc' = "loaded"
    /\ UNCHANGED <<csv, results, idx, tests, exc, cvVars, fmVars, ocVars, drVars>>

\* FormulaAnalyzer.__init__ when pd.read_csv raises: the file is missing
LoadRaises ==
    /\ pc = "start"
    /\ ~csv.exists
    /\ exc' = [type |-> "FileNotFoundError", stat |-> "", at |-> "__init__"]
    /\ pc' = "aborted"
    /\ UNCHANGED <<csv, df, formulas, models, results, idx, tests, out, cvVars, fmVars, ocVars, drVars>>

\* run_analysis up to its loop
BeginRunAnalysis ==
    /\ pc = "loaded"
    /\ results' = <<>>
    /\ idx' = 1
    /\ out' = Append(out, Ev("banner", "", 0))
    /\ pc' = "analysis"
    /\ UNCHANGED <<csv, df, formulas, models, tests, exc, cvVars, fmVars, ocVars, drVars>>

InLoop == pc = "analysis" /\ idx \in DOMAIN OUTPUT_COLS

\* one iteration of run_analysis for an output column the table lacks
SkipStat ==
    /\ InLoop
    /\ OUTPUT_COLS[idx] \notin Range(df.columns)
    /\ out' = Append(out, Ev("skipping", OUTPUT_COLS[idx], 0))
    /\ idx' = idx + 1
    /\ UNCHANGED <<csv, pc, df, formulas, models, results, tests, exc, cvVars, fmVars, ocVars, drVars>>

\* an iteration that stores the polynomial model instead of the linear one
AnalyzeStatStoresPolynomial ==
    /\ InLoop
    /\ OUTPUT_COLS[idx] \in Range(df.columns)
    /\ LET output_col == OUTPUT_COLS[idx]
           lin  == AnalyzeLinear(df, output_col)
           poly == AnalyzePolynomial(df, output_col)
       IN  /\ lin.ok /\ poly.ok
           /\ models' = DictPut(models, output_col, poly.model)
           /\ formulas' = DictPut(formulas, output_col,
                                  FormatFormula(lin.model, output_col))
           /\ out' = out \o
                <<Ev("analyzing", output_col, 0),
                  Ev("linear", output_col,
                     <<FormatFloat(lin.r2, 4), FormatFloat(lin.mae, 2)>>),
                  Ev("formula", output_col, FormatFormula(lin.model, output_col)),
                  Ev("polynomial", output_col, poly.model),
                  Ev("effects", output_col, SingleVariableEffects(df, output_col))>>
           /\ results' = Append(results,
                [stat |-> output_col, r2 |-> lin.r2, mae |-> lin.mae,
                 formula |-> FormatFormula(lin.model, output_col)])
    /\ idx' = idx + 1
    /\ UNCHANGED <<csv, pc, df, tests, exc, cvVars, fmVars, ocVars, drVars>>

\* one iteration of run_analysis in which both fits succeed
AnalyzeStat ==
    /\ InLoop
    /\ OUTPUT_COLS[idx] \in Range(df.columns)
    /\ LET output_col == OUTPUT_COLS[idx]
           lin  == AnalyzeLinear(df, output_col)
           poly == AnalyzePolynomial(df, output_col)
       IN  /\ lin.ok /\ poly.ok
           /\ models' = DictPut(models, output_col, lin.model)
           /\ formulas' = DictPut(formulas, output_col,
                                  FormatFormula(lin.model, output_col))
           /\ out' = out \o
                <<Ev("analyzing", output_col, 0),
                  Ev("linear", output_col,
                     <<FormatFloat(lin.r2, 4), FormatFloat(lin.mae, 2)>>),
                  Ev("formula", output_col, FormatFormula(lin.model, output_col)),
                  Ev("polynomial", output_col, poly.model),
                  Ev("effects", output_col, SingleVariableEffects(df, output_col))>>
           /\ results' = Append(results,
                [stat |-> output_col, r2 |-> lin.r2, mae |-> lin.mae,
                 formula |-> FormatFormula(lin.model, output_col)])
    /\ idx' = idx + 1
    /\ UNCHANGED <<csv, pc, df, tests, exc, cvVars, fmVars, ocVars, drVars>>

\* an iteration that catches the exception of a fit and goes on with the
\* next output column
AnalyzeStatRaisesCaught ==
    /\ InLoop
    /\ OUTPUT_COLS[idx] \in Range(df.columns)
    /\ ~(AnalyzeLinear(df, OUTPUT_COLS[idx]).ok
          /\ AnalyzePolynomial(df, OUTPUT_COLS[idx]).ok)
    /\ out' = Append(out, Ev("analyzing", OUTPUT_COLS[idx], 0))
    /\ idx' = idx + 1
    /\ UNCHANGED <<csv, pc, df, formulas, models, results, tests, exc, cvVars, fmVars, ocVars, drVars>>

\* one iteration of run_analysis in which a fit raises: nothing catches the
\* exception, so it ends run_analysis and main
AnalyzeStatRaises ==
    /\ InLoop
    /\ OUTPUT_COLS[idx] \in Range(df.columns)
    /\ LET output_col == OUTPUT_COLS[idx]
           lin  == AnalyzeLinear(df, output_col)
           poly == AnalyzePolynomial(df, output_col)
       IN  /\ ~(lin.ok /\ poly.ok)
           /\ exc' = IF ~lin.ok
                     THEN [type |-> lin.error, stat |-> output_col,
                           at |-> "analyze_linear"]
                     ELSE [type |-> poly.error, stat |-> output_col,
                           at |-> "analyze_polynomial"]
           /\ out' = Append(out, Ev("analyzing", output_col, 0))
    /\ pc' = "aborted"
    /\ UNCHANGED <<csv, df, formulas, models, results, idx, tests, cvVars, fmVars, ocVars, drVars>>

\* run_analysis returns its results
EndRunAnalysis ==
    /\ pc = "analysis"
    /\ idx = Len(OUTPUT_COLS) + 1
    /\ pc' = "summary"
    /\ UNCHANGED <<csv, df, formulas, models, results, idx, tests, exc, out, cvVars, fmVars, ocVars, drVars>>

\* a print_summary that empties self.formulas as it prints
PrintSummaryPopping ==
    /\ pc = "summary"
    /\ out' = Append(out, Ev("summary_header", "", 0))
    /\ formulas' = <<>>
    /\ pc' = "table"
    /\ UNCHANGED <<csv, df, models, results, idx, tests, exc, cvVars, fmVars, ocVars, drVars>>

\* print_summary
PrintSummary ==
    /\ pc = "summary"
    /\ out' = out \o <<Ev("summary_header", "", 0)>> \o
          [i \in DOMAIN formulas |->
             LET output_col == formulas[i].key
                 model == DictGet(models, output_col)
                 y     == Column(df, output_col)
                 pred  == Predict(model, InputMatrix(df), Len(y))
             IN  Ev("summary", output_col,
                    <<formulas[i].val, FormatFloat(R2Score(y, pred), 3)>>)]
    /\ pc' = "table"
    /\ UNCHANGED <<csv, df, formulas, models, results, idx, tests, exc, cvVars, fmVars, ocVars, drVars>>

\* a print_coefficient_table that leaves the intercept column out of the rows
PrintCoefficientTableNoIntercept ==
    /\ pc = "table"
    /\ LET stats == SelectSeq(OUTPUT_COLS, LAMBDA c : c \in DictKeys(models))
       IN  out' = out \o <<Ev("table_header", "", <<"Stat", "Intercept">> \o INPUT_COLS)>>
             \o [i \in DOMAIN stats |->
                   LET model == DictGet(models, stats[i])
                   IN  Ev("table_row", stats[i],
                          [j \in DOMAIN model.coef_ |->
                              FormatFixed(model.coef_[j], 4)])]
    /\ pc' = "predict"
    /\ UNCHANGED <<csv, df, formulas, models, results, idx, tests, exc, cvVars, fmVars, ocVars, drVars>>

\* print_coefficient_table
PrintCoefficientTable ==
    /\ pc = "table"
    /\ LET stats == SelectSeq(OUTPUT_COLS, LAMBDA c : c \in DictKeys(models))
       IN  out' = out \o <<Ev("table_header", "", <<"Stat", "Intercept">> \o INPUT_COLS)>>
             \o [i \in DOMAIN stats |->
                   LET model == DictGet(models, stats[i])
                   IN  Ev("table_row", stats[i],
                          <<FormatFixed(model.intercept_, 2)>> \o
                          [j \in DOMAIN model.coef_ |->
                              FormatFixed(model.coef_[j], 4)])]
    /\ pc' = "predict"
    /\ UNCHANGED <<csv, df, formulas, models, results, idx, tests, exc, cvVars, fmVars, ocVars, drVars>>

\* a test_prediction that shows no value below zero
PredictionLinesClamped(ratings) ==
    LET stats == SelectSeq(OUTPUT_COLS, LAMBDA c : c \in DictKeys(models))
        pred(c) == PredictOne(DictGet(models, c), ratings)
    IN  <<Ev("prediction_header", "", ratings)>> \o
        [i \in DOMAIN stats |->
            Ev("prediction", stats[i],
               FormatFixed(IF pred(stats[i]).n < 0 THEN RInt(0)
                           ELSE pred(stats[i]), 1))]

\* test_prediction(stuff, control, hra, movement, babip) on ratings
PredictionLines(ratings) ==
    LET stats == SelectSeq(OUTPUT_COLS, LAMBDA c : c \in DictKeys(models))
    IN  <<Ev("prediction_header", "", ratings)>> \o
        [i \in DOMAIN stats |->
            Ev("prediction", stats[i],
               FormatFixed(PredictOne(DictGet(models, stats[i]), ratings), 1))]

\* the next test_prediction call of main
TestPrediction ==
    /\ pc = "predict"
    /\ tests < Len(TEST_RATINGS)
    /\ out' = out \o PredictionLines(TEST_RATINGS[tests + 1])
    /\ tests' = tests + 1
    /\ UNCHANGED <<csv, pc, df, formulas, models, results, idx, exc, cvVars, fmVars, ocVars, drVars>>

\* main's closing lines
Finish ==
    /\ pc = "predict"
    /\ tests = Len(TEST_RATINGS)
    /\ out' = Append(out, Ev("complete", "", 0))
    /\ pc' = "done"
    /\ UNCHANGED <<csv, df, formulas, models, results, idx, tests, exc, cvVars, fmVars, ocVars, drVars>>

Next ==
    \/ Load
    \/ LoadRaises
    \/ BeginRunAnalysis
    \/ SkipStat
    \/ AnalyzeStat
    \/ AnalyzeStatRaises
    \/ EndRunAnalysis
    \/ PrintSummary
    \/ PrintCoefficientTable
    \/ TestPrediction
    \/ Finish

Spec == Init /\ [][Next]_vars

(***************************************************************************)
(* The converters as a state machine: from a starting value, any sequence  *)
(* of at most MaxCalls converter calls, each applied to the last result.   *)
(***************************************************************************)
\* the starting values are the halves k/2 for |k| <= MaxHalves
MaxHalves == 520

\* the longest sequence of converter calls
MaxCalls == 2

ConvertInit ==
    /\ csv = NoFile /\ MainStart /\ FmIdle /\ OcIdle /\ DrIdle
    /\ cvOrig \in {Rat(k, 2) : k \in (-MaxHalves)..MaxHalves}
    /\ cvVal = cvOrig
    /\ cvPath = <<>>

ConvertToUi ==
    /\ Len(cvPath) < MaxCalls
    /\ cvVal' = convert_babip_to_ui(cvVal)
    /\ cvPath' = Append(cvPath, "to_ui")
    /\ UNCHANGED <<cvOrig, mainVars, fmVars, ocVars, drVars>>

ConvertToEditor ==
    /\ Len(cvPath) < MaxCalls
    /\ cvVal' = convert_babip_to_editor(cvVal)
    /\ cvPath' = Append(cvPath, "to_editor")
    /\ UNCHANGED <<cvOrig, mainVars, fmVars, ocVars, drVars>>

ConvertNext == ConvertToUi \/ ConvertToEditor

SpecConvert == ConvertInit /\ [][ConvertNext]_vars

(***************************************************************************)
(* format_formula as a state machine: one call on a model drawn from a     *)
(* set of coefficient vectors around the negligibility threshold.          *)
(***************************************************************************)
CoefSamples ==
    {RInt(0), Rat(1, 2000), Rat(1, NEGLIGIBLE_INV), Rat(-1, NEGLIGIBLE_INV),
     Rat(-11, 10000), RInt(2)}

InterceptSamples == {Rat(3, 2), Rat(-1, 400)}

FormatInit ==
    /\ csv = NoFile /\ MainStart /\ CvIdle /\ OcIdle /\ DrIdle
    /\ fmModel \in [coef_ : [DOMAIN INPUT_COLS -> CoefSamples],
                    intercept_ : InterceptSamples]
    /\ fmOut = <<>>

FormatFormulaCall ==
    /\ fmOut = <<>>
    /\ fmOut' = <<FormatFormula(fmModel, OUTPUT_COLS[1])>>
    /\ UNCHANGED <<fmModel, mainVars, cvVars, ocVars, drVars>>

FormatNext == FormatFormulaCall

SpecFormat == FormatInit /\ [][FormatNext]_vars

(***************************************************************************)
(* test_prediction as a state machine: one call, with any rating vector    *)
(* of the samples, on an analyzer that holds models for some output stats. *)
(***************************************************************************)
\* ratings below, inside and above the 20-80 and 1-250 scales
RatingSamples == {-10, 50, 300}

RatingVectors == [DOMAIN INPUT_COLS -> RatingSamples]

PredictModelSamples ==
    {[coef_ |-> <<RInt(2), RInt(0), RInt(0), RInt(0), RInt(0)>>,
      intercept_ |-> RInt(3)],
     [coef_ |-> <<Rat(-1, 2), RInt(0), Rat(1, 4), RInt(0), Rat(1, 100)>>,
      intercept_ |-> Rat(-7, 2)]}

\* the stats run_analysis fitted: all, all but one, one, none
PredictKeys ==
    {OUTPUT_COLS, SelectSeq(OUTPUT_COLS, LAMBDA c : c # "hr"), <<"ip">>, <<>>}

PredictInit ==
    /\ csv = NoFile /\ CvIdle /\ FmIdle /\ OcIdle /\ DrIdle
    /\ pc = "predict"
    /\ df = NoFrame
    /\ formulas = <<>>
    /\ results = <<>>
    /\ idx = Len(OUTPUT_COLS) + 1
    /\ tests = 0
    /\ exc = NoException
    /\ out = <<>>
    /\ \E ks \in PredictKeys : \E f \in [DOMAIN ks -> PredictModelSamples] :
          models = [i \in DOMAIN ks |-> [key |-> ks[i], val |-> f[i]]]

\* analyzer.test_prediction(*ratings)
TestPredictionCall ==
    /\ pc = "predict"
    /\ tests = 0
    /\ \E ratings \in RatingVectors : out' = out \o PredictionLines(ratings)
    /\ tests' = 1
    /\ UNCHANGED <<csv, pc, df, formulas, models, results, idx, exc, cvVars, fmVars, ocVars, drVars>>

PredictNext == TestPredictionCall

SpecPredict == PredictInit /\ [][PredictNext]_vars

(***************************************************************************)
(* The OCR data collector, src/tools/ocr_data_collector.py.  Text (region  *)
(* names, OCR output, CSV fields and CSV lines) is a sequence of           *)
(* characters.  A CSV file is the sequence of its lines, each without its  *)
(* line terminator.                                                        *)
(***************************************************************************)
\* the characters str.strip() removes
Whitespace == {" ", "\n", "\t", "\r", "\f"}

\* str.strip()
RECURSIVE Strip(_)
Strip(text) ==
    IF text = <<>> THEN <<>>
    ELSE IF Head(text) \in Whitespace THEN Strip(Tail(text))
    ELSE IF text[Len(text)] \in Whitespace
         THEN Strip(SubSeq(text, 1, Len(text) - 1))
    ELSE text

\* the text clean-up of Region.capture: strip, then drop blanks and newlines
CleanOcrText(raw) == SelectSeq(Strip(raw), LAMBDA c : c \notin {" ", "\n"})

\* csv.writer, default dialect: a field with a delimiter, a quote or a line
\* break is quoted, its quotes doubled
CsvSpecial == {",", "\"", "\r", "\n"}

RECURSIVE DoubleQuotes(_)
DoubleQuotes(field) ==
    IF field = <<>> THEN <<>>
    ELSE (IF Head(field) = "\"" THEN <<"\"", "\"">> ELSE <<Head(field)>>)
         \o DoubleQuotes(Tail(field))

WriteField(field) ==
    IF \E i \in DOMAIN field : field[i] \in CsvSpecial
    THEN <<"\"">> \o DoubleQuotes(field) \o <<"\"">>
    ELSE field

RECURSIVE JoinFields(_)
JoinFields(fields) ==
    IF fields = <<>> THEN <<>>
    ELSE IF Len(fields) = 1 THEN WriteField(fields[1])
    ELSE WriteField(fields[1]) \o <<",">> \o JoinFields(Tail(fields))

\* writer.writerow(row): the line written; a row of one empty field is
\* written as a pair of quotes, an empty row as an empty line
WriteRow(row) == IF row = <<<<>>>> THEN <<"\"", "\"">> ELSE JoinFields(row)

\* csv.reader on one line: mode is the reader's state, field the field
\* being read and fields the fields read so far
RECURSIVE ParseRecord(_, _, _, _)
ParseRecord(line, mode, field, fields) ==
    IF line = <<>>
    THEN IF mode = "record" THEN <<>> ELSE Append(fields, field)
    ELSE
      LET c    == Head(line)
          rest == Tail(line)
      IN  CASE mode \in {"record", "start"} ->
                 IF c = "\"" THEN ParseRecord(rest, "quoted", <<>>, fields)
                 ELSE IF c = ","
                      THEN ParseRecord(rest, "start", <<>>, Append(fields, <<>>))
                 ELSE ParseRecord(rest, "plain", <<c>>, fields)
            [] mode = "plain" ->
                 IF c = ","
                 THEN ParseRecord(rest, "start", <<>>, Append(fields, field))
                 ELSE ParseRecord(rest, "plain", Append(field, c), fields)
            [] mode = "quoted" ->
                 IF c = "\"" THEN ParseRecord(rest, "quote", field, fields)
                 ELSE ParseRecord(rest, "quoted", Append(field, c), fields)
            [] OTHER ->
                 IF c = "\""
                 THEN ParseRecord(rest, "quoted", Append(field, c), fields)
                 ELSE IF c = ","
                      THEN ParseRecord(rest, "start", <<>>, Append(fields, field))
                 ELSE ParseRecord(rest, "plain", Append(field, c), fields)

\* list(csv.reader(f)): a blank line reads as the empty row
ReadRows(lines) ==
    [i \in DOMAIN lines |-> ParseRecord(lines[i], "record", <<>>, <<>>)]

\* Region.__init__
Region(name, x, y, width, height) ==
    [name |-> name, x |-> x, y |-> y, width |-> width, height |-> height,
     last_value |-> <<>>]

\* the values of a row of self.tree
TreeRow(region, value) ==
    [name |-> region.name, x |-> region.x, y |-> region.y,
     width |-> region.width, height |-> region.height, value |-> value]

\* [r.name for r in self.regions]
RegionNames(rs) == [i \in DOMAIN rs |-> rs[i].name]

\* what is on the screen when a capture is made: the user brings up the
\* next player after every logged entry
ScreenNow == IF entry_count % 2 = 0 THEN "first" ELSE "second"

\* pytesseract.image_to_string on the screenshot of the region: the digits
\* under the region, with the line break and form feed tesseract adds
TesseractOutput(screen, region) ==
    CASE screen = "first" /\ region.x = 0 -> <<"7", "\n", "\f">>
      [] screen = "first" -> <<"\f">>
      [] screen = "second" /\ region.x = 0 -> <<"1", " ", "5", "\n", "\f">>
      [] OTHER -> <<"4", ".", "2", "\n", "\f">>

\* Region.capture raises for a region without area: there is no image to
\* grab or to hand to tesseract
CaptureFails(region) == region.width <= 0 \/ region.height <= 0

\* Region.capture on a region with area: the cleaned text
Capture(region) == CleanOcrText(TesseractOutput(ScreenNow, region))

\* RegionSelector.on_release keeps a selection wider and higher than this
MIN_SIZE == 10

\* what the user can draw and then type as the name
Drawn ==
    {[name |-> <<"a">>, x |-> 0, y |-> 0, width |-> 50, height |-> 20],
     [name |-> <<"b", ",", "c">>, x |-> 100, y |-> 0, width |-> 50, height |-> 20],
     [name |-> <<"a">>, x |-> 0, y |-> 0, width |-> 5, height |-> 20]}

\* the region files load_regions can be pointed at: json.load's result
RegionFiles ==
    {<<[name |-> <<"a">>, x |-> 0, y |-> 0, width |-> 50, height |-> 20],
       [name |-> <<"b", ",", "c">>, x |-> 100, y |-> 0, width |-> 50, height |-> 20]>>,
     <<[name |-> <<"a">>, x |-> 0, y |-> 0, width |-> 50, height |-> 20],
       [name |-> <<"b">>, x |-> 100, y |-> 0, width |-> 0, height |-> 20]>>}

\* the paths the file dialog can return; "" is a cancelled dialog
CsvPaths == {"new.csv", "old.csv"}

NoCsvFile == [exists |-> FALSE, lines |-> <<>>]

\* "old.csv" exists when the collector starts: empty, or written by an
\* earlier session
OldFiles ==
    {[exists |-> TRUE, lines |-> <<>>],
     [exists |-> TRUE, lines |-> <<<<"a">>, <<"3">>>>]}

\* the threads of the process: Tk's main loop and the keyboard listener
Threads == {"tk", "kb"}

\* the most log_entry callbacks root.after holds at a time
MaxPending == 1

\* the most regions self.regions is grown to by add_region
MaxRegions == 2

\* the most entries logged in a session
MaxEntries == 2

OcInit ==
    /\ csv = NoFile /\ MainStart /\ CvIdle /\ FmIdle /\ DrIdle
    /\ regions = <<>>
    /\ tree = <<>>
    /\ csv_file = ""
    /\ entry_count = 0
    /\ \E old \in OldFiles :
          disk = [p \in CsvPaths |-> IF p = "old.csv" THEN old ELSE NoCsvFile]
    /\ after = 0
    /\ stacks = [t \in Threads |-> <<>>]
    /\ logged = <<>>

\* the loop of log_entry and refresh_all_ocr over enumerate(self.regions):
\* capture, then update row i of the tree.  The loop stops at the first
\* region whose capture raises or that has no row i in the tree.
CaptureLoop(rs, tr) ==
    LET bad == {i \in DOMAIN rs : CaptureFails(rs[i]) \/ i > Len(tr)}
        k   == IF bad = {} THEN Len(rs) + 1
               ELSE CHOOSE i \in bad : \A j \in bad : i <= j
        captured(i) == i < k \/ (i = k /\ ~CaptureFails(rs[i]))
    IN  [ok      |-> bad = {},
         regions |-> [i \in DOMAIN rs |->
                        IF captured(i)
                        THEN [rs[i] EXCEPT !.last_value = Capture(rs[i])]
                        ELSE rs[i]],
         tree    |-> [i \in DOMAIN tr |->
                        IF i < k /\ i <= Len(rs)
                        THEN TreeRow(rs[i], Capture(rs[i]))
                        ELSE tr[i]],
         values  |-> [i \in 1..(k - 1) |-> Capture(rs[i])]]

\* the loop of load_regions over the items of the file: make the Region,
\* append it to self.regions, capture it, insert its row in the tree.  The
\* loop stops at the first region whose capture raises.
LoadLoop(items) ==
    LET made(i) == Region(items[i].name, items[i].x, items[i].y,
                          items[i].width, items[i].height)
        bad == {i \in DOMAIN items : CaptureFails(made(i))}
        k   == IF bad = {} THEN Len(items) + 1
               ELSE CHOOSE i \in bad : \A j \in bad : i <= j
    IN  [ok      |-> bad = {},
         regions |-> [i \in 1..(IF k <= Len(items) THEN k ELSE Len(items)) |->
                        IF i < k
                        THEN [made(i) EXCEPT
                                !.last_value = Capture(made(i))]
                        ELSE made(i)],
         tree    |-> [i \in 1..(k - 1) |->
                        TreeRow(made(i), Capture(made(i)))]]

\* the part of set_csv_file after the dialog returned filepath: self.csv_file
SetCsvPath(filepath) == IF filepath # "" THEN filepath ELSE csv_file

\* the part of set_csv_file after the dialog returned filepath: the files.
\* A file that does not exist is created with the header row; a file that
\* exists is left as it is.
SetCsvDisk(filepath) ==
    IF filepath # "" /\ ~disk[filepath].exists
    THEN [disk EXCEPT ![filepath] =
            [exists |-> TRUE, lines |-> <<WriteRow(RegionNames(regions))>>]]
    ELSE disk

\* writer.writerows(rows)
WriteRows(rows) == [i \in DOMAIN rows |-> WriteRow(rows[i])]

\* _update_csv_headers: the files after it
UpdateCsvHeaders(d, path, rs) ==
    IF ~d[path].exists THEN d
    ELSE
      LET rows == ReadRows(d[path].lines)
      IN  IF rows = <<>> THEN d
          ELSE IF rows[1] # RegionNames(rs)
               THEN [d EXCEPT ![path].lines =
                       WriteRows([rows EXCEPT ![1] = RegionNames(rs)])]
          ELSE d

\* open(path, 'a') and writer.writerow(row): the files after it
AppendCsvRow(d, path, row) ==
    [d EXCEPT ![path] =
        [exists |-> TRUE,
         lines  |-> Append(IF d[path].exists THEN d[path].lines ELSE <<>>,
                           WriteRow(row))]]

(***************************************************************************)
(* The calls of log_entry under way.  A thread's stack holds one frame per *)
(* log_entry call that has not returned, the innermost last: a call waits  *)
(* in the file dialog of set_csv_file ("dialog"), is about to capture      *)
(* ("capture"), to check the headers ("headers") or to append ("append").  *)
(* While a dialog is open Tk's loop runs inside it and dispatches          *)
(* scheduled callbacks; the main window takes no clicks.                   *)
(***************************************************************************)
Frame(at, values) == [pc |-> at, values |-> values]

Top(t) == stacks[t][Len(stacks[t])]

Popped(t) ==
    [stacks EXCEPT ![t] = SubSeq(stacks[t], 1, Len(stacks[t]) - 1)]

Moved(t, frame) == [stacks EXCEPT ![t][Len(stacks[t])] = frame]

Running(t, at) == stacks[t] # <<>> /\ Top(t).pc = at

\* Tk's loop is not inside any callback
TkIdle == stacks["tk"] = <<>>

\* Tk's loop can dispatch a scheduled callback: at top level or in a dialog
TkDispatching == IF TkIdle THEN TRUE ELSE Top("tk").pc = "dialog"

CallsUnderWay == Len(stacks["tk"]) + Len(stacks["kb"])

\* a log_entry without the check of self.regions
LogEntryCallUnchecked(t) ==
    stacks' =
        [stacks EXCEPT ![t] =
            Append(stacks[t],
                   Frame(IF csv_file = "" THEN "dialog" ELSE "capture", <<>>))]

\* log_entry, lines 437-444, from the call to the dialog or to the capture
\* loop: without regions it shows the warning and returns
LogEntryCall(t) ==
    stacks' =
        IF regions = <<>> THEN stacks
        ELSE [stacks EXCEPT ![t] =
                Append(stacks[t],
                       Frame(IF csv_file = "" THEN "dialog" ELSE "capture", <<>>))]

(***************************************************************************)
(* The handlers of the data collector.  An exception raised in a handler   *)
(* ends the handler where it is raised: Tk reports it and its loop goes    *)
(* on.                                                                     *)
(***************************************************************************)
\* an on_f5 that calls log_entry itself, on the listener thread
PressF5CallsLogEntry ==
    /\ stacks["kb"] = <<>>
    /\ entry_count + CallsUnderWay < MaxEntries
    /\ LogEntryCall("kb")
    /\ UNCHANGED <<regions, tree, csv_file, entry_count, disk, after, logged,
                   mainVars, cvVars, fmVars, drVars>>

\* the listener thread runs on_f5 for a press of F5: root.after(0, log_entry)
PressF5 ==
    /\ after < MaxPending
    /\ after' = after + 1
    /\ UNCHANGED <<regions, tree, csv_file, entry_count, disk, stacks, logged,
                   mainVars, cvVars, fmVars, drVars>>

\* Tk's loop runs a scheduled log_entry
RunScheduled ==
    /\ after > 0
    /\ TkDispatching
    /\ entry_count + CallsUnderWay < MaxEntries
    /\ after' = after - 1
    /\ LogEntryCall("tk")
    /\ UNCHANGED <<regions, tree, csv_file, entry_count, disk, logged,
                   mainVars, cvVars, fmVars, drVars>>

\* a click on "Log Entry"
ClickLogEntry ==
    /\ TkIdle
    /\ entry_count + CallsUnderWay < MaxEntries
    /\ LogEntryCall("tk")
    /\ UNCHANGED <<regions, tree, csv_file, entry_count, disk, after, logged,
                   mainVars, cvVars, fmVars, drVars>>

\* the file dialog of a waiting log_entry returns filepath: the rest of
\* set_csv_file, then lines 443-444
AnswerFileDialog(t) ==
    /\ Running(t, "dialog")
    /\ \E filepath \in CsvPaths \cup {""} :
          /\ csv_file' = SetCsvPath(filepath)
          /\ disk' = SetCsvDisk(filepath)
    /\ stacks' = IF csv_file' = "" THEN Popped(t)
                 ELSE Moved(t, Frame("capture", <<>>))
    /\ UNCHANGED <<regions, tree, entry_count, after, logged,
                   mainVars, cvVars, fmVars, drVars>>

\* log_entry, lines 446-456: the capture loop
CaptureAll(t) ==
    /\ Running(t, "capture")
    /\ LET loop == CaptureLoop(regions, tree)
       IN  /\ regions' = loop.regions
           /\ tree' = loop.tree
           /\ stacks' = IF loop.ok THEN Moved(t, Frame("headers", loop.values))
                        ELSE Popped(t)
    /\ UNCHANGED <<csv_file, entry_count, disk, after, logged,
                   mainVars, cvVars, fmVars, drVars>>

\* log_entry, line 459: self._update_csv_headers()
CheckHeaders(t) ==
    /\ Running(t, "headers")
    /\ disk' = UpdateCsvHeaders(disk, csv_file, regions)
    /\ stacks' = Moved(t, Frame("append", Top(t).values))
    /\ UNCHANGED <<regions, tree, csv_file, entry_count, after, logged,
                   mainVars, cvVars, fmVars, drVars>>

\* a log_entry that appends the row without counting the entry
AppendRowUncounted(t) ==
    /\ Running(t, "append")
    /\ disk' = AppendCsvRow(disk, csv_file, Top(t).values)
    /\ logged' = Append(logged, [path |-> csv_file, row |-> Top(t).values])
    /\ stacks' = Popped(t)
    /\ UNCHANGED <<regions, tree, csv_file, entry_count, after,
                   mainVars, cvVars, fmVars, drVars>>

\* log_entry, lines 462-471: append the row, count the entry, return
AppendRow(t) ==
    /\ Running(t, "append")
    /\ disk' = AppendCsvRow(disk, csv_file, Top(t).values)
    /\ entry_count' = entry_count + 1
    /\ logged' = Append(logged, [path |-> csv_file, row |-> Top(t).values])
    /\ stacks' = Popped(t)
    /\ UNCHANGED <<regions, tree, csv_file, after, mainVars, cvVars, fmVars, drVars>>

RemoveAt(seq, i) ==
    [j \in 1..(Len(seq) - 1) |-> IF j < i THEN seq[j] ELSE seq[j + 1]]

\* add_region to _on_region_selected: the user draws a rectangle and types
\* a name; a selection that is too small adds nothing.  The region is
\* appended before it is captured, its row inserted after.
AddRegion ==
    /\ TkIdle
    /\ Len(regions) < MaxRegions
    /\ \E d \in Drawn :
          LET region == Region(d.name, d.x, d.y, d.width, d.height)
          IN  IF ~(d.width > MIN_SIZE /\ d.height > MIN_SIZE) \/ d.name = <<>>
              THEN UNCHANGED <<regions, tree>>
              ELSE IF CaptureFails(region)
              THEN regions' = Append(regions, region) /\ UNCHANGED tree
              ELSE /\ regions' = Append(regions,
                          [region EXCEPT !.last_value = Capture(region)])
                   /\ tree' = Append(tree, TreeRow(region, Capture(region)))
    /\ UNCHANGED <<csv_file, entry_count, disk, after, stacks, logged,
                   mainVars, cvVars, fmVars, drVars>>

\* remove_region with row i of the tree selected: the row is deleted, then
\* self.regions[i] (an IndexError when there is none)
RemoveRegion ==
    /\ TkIdle
    /\ \E i \in DOMAIN tree :
          /\ tree' = RemoveAt(tree, i)
          /\ regions' = IF i \in DOMAIN regions THEN RemoveAt(regions, i)
                        ELSE regions
    /\ UNCHANGED <<csv_file, entry_count, disk, after, stacks, logged,
                   mainVars, cvVars, fmVars, drVars>>

\* clear_regions, confirmed
ClearRegions ==
    /\ TkIdle
    /\ tree' = <<>>
    /\ regions' = <<>>
    /\ UNCHANGED <<csv_file, entry_count, disk, after, stacks, logged,
                   mainVars, cvVars, fmVars, drVars>>

\* load_regions on a region file
LoadRegions ==
    /\ TkIdle
    /\ \E items \in RegionFiles :
          /\ regions' = LoadLoop(items).regions
          /\ tree' = LoadLoop(items).tree
    /\ UNCHANGED <<csv_file, entry_count, disk, after, stacks, logged,
                   mainVars, cvVars, fmVars, drVars>>

\* on_region_select: the user selects row i of the tree
SelectRow ==
    /\ TkIdle
    /\ \E i \in DOMAIN tree :
          IF i \notin DOMAIN regions THEN UNCHANGED <<regions, tree>>
          ELSE IF CaptureFails(regions[i]) THEN UNCHANGED <<regions, tree>>
          ELSE /\ regions' = [regions EXCEPT
                                ![i].last_value = Capture(regions[i])]
               /\ tree' = [tree EXCEPT
                             ![i] = TreeRow(regions[i], Capture(regions[i]))]
    /\ UNCHANGED <<csv_file, entry_count, disk, after, stacks, logged,
                   mainVars, cvVars, fmVars, drVars>>

\* refresh_all_ocr
RefreshAllOcr ==
    /\ TkIdle
    /\ regions' = CaptureLoop(regions, tree).regions
    /\ tree' = CaptureLoop(regions, tree).tree
    /\ UNCHANGED <<csv_file, entry_count, disk, after, stacks, logged,
                   mainVars, cvVars, fmVars, drVars>>

\* set_csv_file from its button: the dialog returns filepath
SetCsvFile ==
    /\ TkIdle
    /\ \E filepath \in CsvPaths \cup {""} :
          /\ csv_file' = SetCsvPath(filepath)
          /\ disk' = SetCsvDisk(filepath)
    /\ UNCHANGED <<regions, tree, entry_count, after, stacks, logged,
                   mainVars, cvVars, fmVars, drVars>>

OcNext ==
    \/ PressF5
    \/ RunScheduled
    \/ ClickLogEntry
    \/ \E t \in Threads : AnswerFileDialog(t)
    \/ \E t \in Threads : CaptureAll(t)
    \/ \E t \in Threads : CheckHeaders(t)
    \/ \E t \in Threads : AppendRow(t)
    \/ AddRegion
    \/ RemoveRegion
    \/ ClearRegions
    \/ LoadRegions
    \/ SelectRow
    \/ RefreshAllOcr
    \/ SetCsvFile

SpecOcr == OcInit /\ [][OcNext]_vars

(***************************************************************************)
(* analyze_merged.py: the snapshots and their union.  A snapshot is two    *)
(* CSV exports, pitchers and batters; a row is kept here with its ID, POS  *)
(* and Age cells.  The exports of 2017 show every player seven years       *)
(* older than those of 2010.                                               *)
(***************************************************************************)
\* texts are sequences of characters
PITCHER_POS ==
    {<<"S", "P">>, <<"R", "P">>, <<"C", "L">>, <<"M", "R">>, <<"L", "R">>}

\* int(s.strip()) of a cell of digits
IntCell(cell) == ParseDigits(Strip(cell))

\* Player(...), with the fields kept here
Player(pid, pos, age) ==
    [pid |-> pid, pos |-> pos, age |-> age, is_pitcher |-> pos \in PITCHER_POS]

PlayerOfRow(row) == Player(IntCell(row.ID), Strip(row.POS), IntCell(row.Age))

\* load_snapshot, first loop: every row of the pitchers file is stored
\* under its ID
RECURSIVE LoadPitchers(_, _)
LoadPitchers(players, rows) ==
    IF rows = <<>> THEN players
    ELSE LoadPitchers(DictPut(players, IntCell(Head(rows).ID),
                              PlayerOfRow(Head(rows))),
                      Tail(rows))

\* load_snapshot, second loop: a row of the batters file is stored unless
\* its ID is already there
RECURSIVE LoadBatters(_, _)
LoadBatters(players, rows) ==
    IF rows = <<>> THEN players
    ELSE LoadBatters(IF IntCell(Head(rows).ID) \in DictKeys(players)
                     THEN players
                     ELSE DictPut(players, IntCell(Head(rows).ID),
                                  PlayerOfRow(Head(rows))),
                     Tail(rows))

load_snapshot(batters_file, pitchers_file) ==
    LoadBatters(LoadPitchers(<<>>, pitchers_file), batters_file)

\* the most rows a snapshot file has
MaxFileRows == 1

PlayerIdCells == {<<"7">>, <<" ", "8">>, <<"1", "2">>}

ExportRows(pos, age) ==
    {[ID |-> id, POS |-> pos, Age |-> age] : id \in PlayerIdCells}

ExportFiles(pos, age) ==
    UNION {[1..n -> ExportRows(pos, age)] : n \in 0..MaxFileRows}

SnapshotFiles ==
    [batters_2010  : ExportFiles(<<"C", "F">>, <<"2", "0">>),
     pitchers_2010 : ExportFiles(<<"S", "P">>, <<"2", "1">>),
     batters_2017  : ExportFiles(<<"C", "F">>, <<"2", "7">>),
     pitchers_2017 : ExportFiles(<<"S", "P">>, <<"2", "8">>)]

MergeInit ==
    /\ csv = NoFile /\ MainStart /\ CvIdle /\ FmIdle /\ OcIdle
    /\ WarIdle /\ ScIdle /\ AdIdle /\ StIdle
    /\ snap_files \in SnapshotFiles
    /\ mgPc = "load_2010"
    /\ snap_2010 = <<>>
    /\ snap_2017 = <<>>
    /\ merged = <<>>
    /\ mgPos = 0

\* snap_2010 = load_snapshot('batters_2010.csv', 'pitchers_2010.csv', 2010)
LoadSnapshot2010 ==
    /\ mgPc = "load_2010"
    /\ snap_2010' = load_snapshot(snap_files.batters_2010,
                                  snap_files.pitchers_2010)
    /\ mgPc' = "load_2017"
    /\ UNCHANGED <<snap_files, snap_2017, merged, mgPos,
                   mgOthers>>

\* snap_2017 = load_snapshot('batters_2017.csv', 'pitchers_2017.csv', 2017)
\* and merged = {}
LoadSnapshot2017 ==
    /\ mgPc = "load_2017"
    /\ snap_2017' = load_snapshot(snap_files.batters_2017,
                                  snap_files.pitchers_2017)
    /\ merged' = <<>>
    /\ mgPos' = 0
    /\ mgPc' = "merge_2010"
    /\ UNCHANGED <<snap_files, snap_2010, mgOthers>>

\* one iteration of the loop over snap_2010.items()
MergeFrom2010 ==
    /\ mgPc = "merge_2010"
    /\ mgPos < Len(snap_2010)
    /\ merged' = DictPut(merged, snap_2010[mgPos + 1].key,
                         snap_2010[mgPos + 1].val)
    /\ mgPos' = mgPos + 1
    /\ UNCHANGED <<snap_files, mgPc, snap_2010, snap_2017,
                   mgOthers>>

\* the loop over snap_2010.items() is over
EndMergeFrom2010 ==
    /\ mgPc = "merge_2010"
    /\ mgPos = Len(snap_2010)
    /\ mgPos' = 0
    /\ mgPc' = "merge_2017"
    /\ UNCHANGED <<snap_files, snap_2010, snap_2017, merged,
                   mgOthers>>

\* an iteration of the loop over snap_2017.items() that stores every item
MergeFrom2017Overwriting ==
    /\ mgPc = "merge_2017"
    /\ mgPos < Len(snap_2017)
    /\ merged' = DictPut(merged, snap_2017[mgPos + 1].key,
                         snap_2017[mgPos + 1].val)
    /\ mgPos' = mgPos + 1
    /\ UNCHANGED <<snap_files, mgPc, snap_2010, snap_2017,
                   mgOthers>>

\* one iteration of the loop over snap_2017.items()
MergeFrom2017 ==
    /\ mgPc = "merge_2017"
    /\ mgPos < Len(snap_2017)
    /\ merged' = IF snap_2017[mgPos + 1].key \notin DictKeys(merged)
                 THEN DictPut(merged, snap_2017[mgPos + 1].key,
                              snap_2017[mgPos + 1].val)
                 ELSE merged
    /\ mgPos' = mgPos + 1
    /\ UNCHANGED <<snap_files, mgPc, snap_2010, snap_2017,
                   mgOthers>>

\* the loop over snap_2017.items() is over: merged is complete
EndMergeFrom2017 ==
    /\ mgPc = "merge_2017"
    /\ mgPos = Len(snap_2017)
    /\ mgPc' = "merged"
    /\ UNCHANGED <<snap_files, snap_2010, snap_2017, merged, mgPos,
                   mgOthers>>

MergeNext ==
    \/ LoadSnapshot2010
    \/ LoadSnapshot2017
    \/ MergeFrom2010
    \/ EndMergeFrom2010
    \/ MergeFrom2017
    \/ EndMergeFrom2017

SpecMerge == MergeInit /\ [][MergeNext]_vars

(***************************************************************************)
(* Numbers written as text, as Python's int() and float() read them, for   *)
(* texts of digits, ".", "-", "+", blanks and letters other than those of  *)
(* "inf", "nan" and exponents.                                             *)
(***************************************************************************)
\* the text without surrounding blanks and without its sign
Unsigned(text) ==
    LET t == Strip(text)
    IN  IF t # <<>> /\ t[1] \in {"-", "+"} THEN Tail(t) ELSE t

IsNegative(text) == Strip(text) # <<>> /\ Strip(text)[1] = "-"

DigitsOf(text) == SelectSeq(text, LAMBDA c : c \in Digits)

\* int(text) does not raise
IsIntText(text) == IsDigits(Unsigned(text))

\* int(text)
IntText(text) ==
    IF IsNegative(text) THEN -ParseDigits(Unsigned(text))
    ELSE ParseDigits(Unsigned(text))

\* float(text) does not raise
IsFloatText(text) ==
    LET u == Unsigned(text)
    IN  /\ \A i \in DOMAIN u : u[i] \in Digits \cup {"."}
        /\ Len(SelectSeq(u, LAMBDA c : c = ".")) <= 1
        /\ DigitsOf(u) # <<>>

\* float(text), exactly
FloatText(text) ==
    LET u     == Unsigned(text)
        point == IF "." \in Range(u) THEN CHOOSE i \in DOMAIN u : u[i] = "."
                 ELSE Len(u) + 1
        mag   == ParseDigits(DigitsOf(u))
        dec   == IF point > Len(u) THEN 0 ELSE Len(u) - point
    IN  Rat(IF IsNegative(text) THEN -mag ELSE mag, Pow10(dec))

(***************************************************************************)
(* Career WAR, src/data/draft_data/analyze_2010.py steps 1 and 2 and       *)
(* load_career_war of analyze_merged.py.  A stats directory gives, for a   *)
(* year, the rows of that year's file or no file; a row is kept with its   *)
(* player_id, war and ip or pa cells.                                      *)
(***************************************************************************)
\* safe_int(val) and safe_float(val) of analyze_2010.py
safe_int(val) == IF IsIntText(val) THEN IntText(val) ELSE 0

safe_float(val) == IF IsFloatText(val) THEN FloatText(val) ELSE RInt(0)

\* d.get(k, default)
DictGetOr(d, k, default) == IF k \in DictKeys(d) THEN DictGet(d, k) ELSE default

\* range(2000, 2022)
FIRST_YEAR == 2000

YEAR_STOP == 2022

NoStatFile == [exists |-> FALSE, rows |-> <<>>]

StatFile(rows) == [exists |-> TRUE, rows |-> rows]

\* fpath.exists() and load_csv(fpath) for year y of a directory
FileOfYear(dir, y) == IF y \in DOMAIN dir THEN dir[y] ELSE NoStatFile

\* the rows the loop over the years reads from year y on, in its order
RECURSIVE RowsFrom(_, _)
RowsFrom(dir, y) ==
    IF y >= YEAR_STOP THEN <<>>
    ELSE (IF FileOfYear(dir, y).exists THEN FileOfYear(dir, y).rows
          ELSE <<>>) \o RowsFrom(dir, y + 1)

\* a loop body that adds the row's war whatever its ip
PitchingRowAlwaysAdds(acc, row) ==
    LET pid == safe_int(row.player_id)
    IN  IF pid = 0 THEN acc
        ELSE [war     |-> DictPut(acc.war, pid,
                            RAdd(DictGetOr(acc.war, pid, RInt(0)),
                                 safe_float(row.war))),
              seasons |-> IF RLess(RInt(0), safe_float(row.ip))
                          THEN DictPut(acc.seasons, pid,
                                       DictGetOr(acc.seasons, pid, 0) + 1)
                          ELSE acc.seasons]

\* analyze_2010.py, lines 94-102: the loop body for a pitching row
PitchingRow(acc, row) ==
    LET pid == safe_int(row.player_id)
    IN  IF pid = 0 THEN acc
        ELSE IF RLess(RInt(0), safe_float(row.ip))
        THEN [war     |-> DictPut(acc.war, pid,
                            RAdd(DictGetOr(acc.war, pid, RInt(0)),
                                 safe_float(row.war))),
              seasons |-> DictPut(acc.seasons, pid,
                                  DictGetOr(acc.seasons, pid, 0) + 1)]
        ELSE acc

\* analyze_2010.py, lines 111-119: the loop body for a batting row
BattingRow(acc, row) ==
    LET pid == safe_int(row.player_id)
    IN  IF pid = 0 THEN acc
        ELSE IF safe_int(row.pa) > 0
        THEN [war     |-> DictPut(acc.war, pid,
                            RAdd(DictGetOr(acc.war, pid, RInt(0)),
                                 safe_float(row.war))),
              seasons |-> DictPut(acc.seasons, pid,
                                  DictGetOr(acc.seasons, pid, 0) + 1)]
        ELSE acc

RECURSIVE PitchingRows(_, _)
PitchingRows(acc, rows) ==
    IF rows = <<>> THEN acc
    ELSE PitchingRows(PitchingRow(acc, Head(rows)), Tail(rows))

RECURSIVE BattingRows(_, _)
BattingRows(acc, rows) ==
    IF rows = <<>> THEN acc
    ELSE BattingRows(BattingRow(acc, Head(rows)), Tail(rows))

NoWar == [war |-> <<>>, seasons |-> <<>>]

(***************************************************************************)
(* load_career_war of analyze_merged.py: a blank cell counts as 0, any     *)
(* other cell that is no number raises ValueError.                         *)
(***************************************************************************)
\* int(cell.strip() or '0') and float(cell.strip() or '0')
BlankAsZero(cell) == IF Strip(cell) = <<>> THEN <<"0">> ELSE Strip(cell)

\* a batting row can be read
BattingRowReads(row) ==
    /\ IsIntText(row.player_id)
    /\ IsIntText(BlankAsZero(row.pa))
    /\ IsFloatText(BlankAsZero(row.war))

PitchingRowReads(row) ==
    /\ IsIntText(row.player_id)
    /\ IsFloatText(BlankAsZero(row.ip))
    /\ IsFloatText(BlankAsZero(row.war))

\* lines 33-37 and 49-53: the loop bodies, for a row that can be read
MergedBattingRow(war, row) ==
    IF IntText(BlankAsZero(row.pa)) > 0
    THEN DictPut(war, IntText(row.player_id),
                 RAdd(DictGetOr(war, IntText(row.player_id), RInt(0)),
                      FloatText(BlankAsZero(row.war))))
    ELSE war

MergedPitchingRow(war, row) ==
    IF RLess(RInt(0), FloatText(BlankAsZero(row.ip)))
    THEN DictPut(war, IntText(row.player_id),
                 RAdd(DictGetOr(war, IntText(row.player_id), RInt(0)),
                      FloatText(BlankAsZero(row.war))))
    ELSE war

RECURSIVE MergedBattingRows(_, _)
MergedBattingRows(war, rows) ==
    IF rows = <<>> THEN war
    ELSE MergedBattingRows(MergedBattingRow(war, Head(rows)), Tail(rows))

RECURSIVE MergedPitchingRows(_, _)
MergedPitchingRows(war, rows) ==
    IF rows = <<>> THEN war
    ELSE MergedPitchingRows(MergedPitchingRow(war, Head(rows)), Tail(rows))

\* load_career_war(): the two tables, or the ValueError of the first row
\* that cannot be read
load_career_war(files) ==
    LET bat   == RowsFrom(files.mlb_batting, FIRST_YEAR)
        pitch == RowsFrom(files.mlb, FIRST_YEAR)
    IN  IF /\ \A i \in DOMAIN bat : BattingRowReads(bat[i])
           /\ \A i \in DOMAIN pitch : PitchingRowReads(pitch[i])
        THEN [ok |-> TRUE,
              batting_war  |-> MergedBattingRows(<<>>, bat),
              pitching_war |-> MergedPitchingRows(<<>>, pitch)]
        ELSE [ok |-> FALSE, batting_war |-> <<>>, pitching_war |-> <<>>]

(***************************************************************************)
(* The stats files and the 2010 snapshot of the model.                     *)
(***************************************************************************)
\* the most rows a stats file of a varied year has
MaxStatRows == 1

StatRow(player_id, war, time) ==
    [player_id |-> player_id, war |-> war, ip |-> time, pa |-> time]

\* pitching rows: with innings, without, with a blank ip, without a player
PitchingRowPatterns ==
    {StatRow(<<"7">>, <<"1", ".", "5">>, <<"1", "0", ".", "1">>),
     StatRow(<<"7">>, <<"-", "0", ".", "5">>, <<"0">>),
     StatRow(<<" ", "8">>, <<"2">>, <<>>),
     StatRow(<<>>, <<"1">>, <<"5">>)}

\* batting rows: with plate appearances and without
BattingRowPatterns ==
    {StatRow(<<"8">>, <<"3", ".", "1">>, <<"1", "2">>),
     StatRow(<<"8">>, <<"-", "0", ".", "2">>, <<"0">>),
     StatRow(<<"7">>, <<"0", ".", "4">>, <<" ", "3">>)}

StatFilesOf(patterns) ==
    {NoStatFile} \cup
    {StatFile(rows) : rows \in UNION {[1..n -> patterns] : n \in 0..MaxStatRows}}

\* the files of the years outside 2000-2021 have a row that would count
OutsideRow(player_id) == StatRow(player_id, <<"9">>, <<"1">>)

StatDirs ==
    {[mlb |-> [y \in {1999, 2000, 2021, 2022} |->
                 CASE y = 1999 -> StatFile(<<OutsideRow(<<"7">>)>>)
                   [] y = 2000 -> first
                   [] y = 2021 -> last
                   [] y = 2022 -> StatFile(<<OutsideRow(<<"8">>)>>)],
      mlb_batting |-> [y \in {1999, 2000} |->
                 IF y = 1999 THEN StatFile(<<OutsideRow(<<"8">>)>>) ELSE bat]] :
        first \in StatFilesOf(PitchingRowPatterns),
        last \in StatFilesOf(PitchingRowPatterns),
        bat \in StatFilesOf(BattingRowPatterns)}

SnapshotRow(id, pos) == [ID |-> id, POS |-> pos]

Snapshots2010 ==
    {[pitchers |-> <<SnapshotRow(<<"7">>, <<"S", "P">>)>>,
      batters  |-> <<SnapshotRow(<<"8">>, <<"C", "F">>),
                     SnapshotRow(<<"7">>, <<"C", "F">>),
                     SnapshotRow(<<"9">>, <<"R", "P">>)>>],
     [pitchers |-> <<SnapshotRow(<<"8">>, <<"S", "P">>),
                     SnapshotRow(<<"x">>, <<"S", "P">>)>>,
      batters  |-> <<SnapshotRow(<<"7">>, <<" ", "C", "F">>)>>]}

WarInit ==
    /\ csv = NoFile /\ MainStart /\ CvIdle /\ FmIdle /\ OcIdle
    /\ MgIdle /\ ScIdle /\ AdIdle /\ StIdle
    /\ stat_files \in StatDirs
    /\ players_2010 \in Snapshots2010
    /\ warPc = "pitching"
    /\ pitching_war = <<>>
    /\ pitching_seasons = <<>>
    /\ batting_war = <<>>
    /\ batting_seasons = <<>>
    /\ all_players = <<>>
    /\ seen_ids = {}
    /\ career_war = <<>>

\* analyze_2010.py, lines 88-102: the loop over the pitching files
LoadPitchingWar ==
    /\ warPc = "pitching"
    /\ LET acc == PitchingRows(NoWar, RowsFrom(stat_files.mlb, FIRST_YEAR))
       IN  /\ pitching_war' = acc.war
           /\ pitching_seasons' = acc.seasons
    /\ warPc' = "batting"
    /\ UNCHANGED <<stat_files, players_2010, batting_war, batting_seasons,
                   all_players, seen_ids, career_war, warOthers>>

\* analyze_2010.py, lines 105-119: the loop over the batting files
LoadBattingWar ==
    /\ warPc = "batting"
    /\ LET acc == BattingRows(NoWar,
                              RowsFrom(stat_files.mlb_batting, FIRST_YEAR))
       IN  /\ batting_war' = acc.war
           /\ batting_seasons' = acc.seasons
    /\ warPc' = "pitchers_2010"
    /\ UNCHANGED <<stat_files, players_2010, pitching_war, pitching_seasons,
                   all_players, seen_ids, career_war, warOthers>>

\* the dict appended to all_players, with the fields kept here
PlayerEntry(pid, is_pitcher, pos, war, seasons) ==
    [id |-> pid, type |-> IF is_pitcher THEN "pitcher" ELSE "batter",
     pos |-> pos, war |-> war, mlb_seasons |-> seasons,
     ever_mlb |-> seasons > 0]

\* lines 136-174: the loop over pitchers_2010.csv
RECURSIVE PitchersLoop(_, _)
PitchersLoop(acc, rows) ==
    IF rows = <<>> THEN acc
    ELSE LET pid == safe_int(Head(rows).ID)
         IN  PitchersLoop(
               IF pid = 0 \/ pid \in acc.seen THEN acc
               ELSE [seen    |-> acc.seen \cup {pid},
                     players |-> Append(acc.players,
                        PlayerEntry(pid, TRUE, Strip(Head(rows).POS),
                                    DictGetOr(pitching_war, pid, RInt(0)),
                                    DictGetOr(pitching_seasons, pid, 0)))],
               Tail(rows))

\* lines 177-222: the loop over batters_2010.csv
RECURSIVE BattersLoop(_, _)
BattersLoop(acc, rows) ==
    IF rows = <<>> THEN acc
    ELSE LET pid == safe_int(Head(rows).ID)
             pos == Strip(Head(rows).POS)
             is_pitcher == pos \in PITCHER_POS
         IN  BattersLoop(
               IF pid = 0 \/ pid \in acc.seen THEN acc
               ELSE [seen    |-> acc.seen \cup {pid},
                     players |-> Append(acc.players,
                        PlayerEntry(pid, is_pitcher, pos,
                          IF is_pitcher
                          THEN DictGetOr(pitching_war, pid, RInt(0))
                          ELSE DictGetOr(batting_war, pid, RInt(0)),
                          IF is_pitcher
                          THEN DictGetOr(pitching_seasons, pid, 0)
                          ELSE DictGetOr(batting_seasons, pid, 0)))],
               Tail(rows))

LoadPitchers2010 ==
    /\ warPc = "pitchers_2010"
    /\ LET acc == PitchersLoop([seen |-> {}, players |-> <<>>],
                               players_2010.pitchers)
       IN  /\ all_players' = acc.players
           /\ seen_ids' = acc.seen
    /\ warPc' = "batters_2010"
    /\ UNCHANGED <<stat_files, players_2010, pitching_war, pitching_seasons,
                   batting_war, batting_seasons, career_war, warOthers>>

LoadBatters2010 ==
    /\ warPc = "batters_2010"
    /\ LET acc == BattersLoop([seen |-> seen_ids, players |-> all_players],
                              players_2010.batters)
       IN  /\ all_players' = acc.players
           /\ seen_ids' = acc.seen
    /\ warPc' = "career_war"
    /\ UNCHANGED <<stat_files, players_2010, pitching_war, pitching_seasons,
                   batting_war, batting_seasons, career_war, warOthers>>

\* analyze_merged.py, line 77: load_career_war() returns
LoadCareerWar ==
    /\ warPc = "career_war"
    /\ load_career_war(stat_files).ok
    /\ career_war' = load_career_war(stat_files)
    /\ warPc' = "loaded"
    /\ UNCHANGED <<stat_files, players_2010, pitching_war, pitching_seasons,
                   batting_war, batting_seasons, all_players, seen_ids,
                   warOthers>>

\* analyze_merged.py, line 77: load_career_war() raises, the script ends
LoadCareerWarRaises ==
    /\ warPc = "career_war"
    /\ ~load_career_war(stat_files).ok
    /\ career_war' = load_career_war(stat_files)
    /\ warPc' = "aborted"
    /\ UNCHANGED <<stat_files, players_2010, pitching_war, pitching_seasons,
                   batting_war, batting_seasons, all_players, seen_ids,
                   warOthers>>

WarNext ==
    \/ LoadPitchingWar
    \/ LoadBattingWar
    \/ LoadPitchers2010
    \/ LoadBatters2010
    \/ LoadCareerWar
    \/ LoadCareerWarRaises

SpecWar == WarInit /\ [][WarNext]_vars

(***************************************************************************)
(* draft_pick_value.py: the scrape of the draft pages.  A page is kept as  *)
(* the rows its "<tr>...</tr>" matches give and a row as the contents of   *)
(* its "<td>" cells, a cell being text or the link to a player's page.     *)
(***************************************************************************)
Text(text) == [kind |-> "text", text |-> text, pid |-> <<>>]

\* <a href='/world/player/PID' ...>Name</a>
PlayerLink(pid, name) == [kind |-> "link", text |-> name, pid |-> pid]

\* si(val) and sf(val) on the content of a cell: the markup of a link is
\* no number
si(cell) ==
    IF cell.kind = "text" /\ IsIntText(cell.text) THEN IntText(cell.text)
    ELSE 0

sf(cell) ==
    IF cell.kind = "text" /\ IsFloatText(cell.text) THEN FloatText(cell.text)
    ELSE RInt(0)

\* player_re.search(row_html): the first player link of the row, if any
LinksOf(tds) == SelectSeq(tds, LAMBDA cell : cell.kind = "link")

\* range(2008, 2021) and the 2021 of years_data
FIRST_DRAFT == 2008

DRAFT_STOP == 2021

DATA_YEAR == 2021

\* the least number of cells of a row of picks
MIN_CELLS == 10

\* a row's picks without the check of round and overall pick
PicksOfRowAnyRound(y, tds) ==
    IF LinksOf(tds) = <<>> THEN <<>>
    ELSE IF Len(tds) < MIN_CELLS THEN <<>>
    ELSE <<[year |-> y, round |-> si(tds[1]), pick |-> si(tds[2]),
            oa_pick |-> si(tds[3]),
            player_id |-> ParseDigits(LinksOf(tds)[1].pid),
            name |-> Strip(LinksOf(tds)[1].text),
            age |-> si(tds[7]), bat_war |-> sf(tds[8]),
            pitch_war |-> sf(tds[9]), war |-> sf(tds[10]),
            years_data |-> DATA_YEAR - y]>>

\* lines 45-86: the picks a row adds to the list, none or one
PicksOfRow(y, tds) ==
    IF LinksOf(tds) = <<>> THEN <<>>
    ELSE IF Len(tds) < MIN_CELLS THEN <<>>
    ELSE IF si(tds[1]) > 0 /\ si(tds[3]) > 0
    THEN <<[year |-> y, round |-> si(tds[1]), pick |-> si(tds[2]),
            oa_pick |-> si(tds[3]),
            player_id |-> ParseDigits(LinksOf(tds)[1].pid),
            name |-> Strip(LinksOf(tds)[1].text),
            age |-> si(tds[7]), bat_war |-> sf(tds[8]),
            pitch_war |-> sf(tds[9]), war |-> sf(tds[10]),
            years_data |-> DATA_YEAR - y]>>
    ELSE <<>>

\* lines 45-88: the picks of a page
RECURSIVE PicksOfPage(_, _)
PicksOfPage(y, rows) ==
    IF rows = <<>> THEN <<>>
    ELSE PicksOfRow(y, Head(rows)) \o PicksOfPage(y, Tail(rows))

\* a row of picks: round, pick, overall pick, team, position, player, age
\* and the three WARs
PickRow(rd, pk, oa, player, age, bat, pitch, total) ==
    <<Text(rd), Text(pk), Text(oa), Text(<<"A", "T", "L">>),
      Text(<<"S", "P">>), player, Text(age), Text(bat), Text(pitch),
      Text(total)>>

\* the pages the site answers with
Pages ==
    [A |-> <<PickRow(<<"1">>, <<"3">>, <<"3">>,
                     PlayerLink(<<"1", "0", "1">>, <<"A", "l">>),
                     <<"2", "1">>, <<"0", ".", "0">>,
                     <<"1", "2", ".", "5">>, <<"1", "2", ".", "5">>)>>,
     B |-> <<PickRow(<<"1">>, <<"1">>, <<"1">>, Text(<<"B", "o">>),
                     <<"2", "0">>, <<"1", ".", "0">>, <<"0">>, <<"1", ".", "0">>),
             PickRow(<<"2">>, <<" ", "4">>, <<"3", "4">>,
                     PlayerLink(<<"1", "0", "2">>, <<" ", "C", "y", " ">>),
                     <<"x">>, <<"-">>, <<"-", "1", ".", "5">>, <<"-">>),
             SubSeq(PickRow(<<"3">>, <<"5">>, <<"6", "5">>,
                            PlayerLink(<<"1", "0", "3">>, <<"D", "e">>),
                            <<"1", "9">>, <<"2", ".", "0">>, <<"0">>,
                            <<"2", ".", "0">>), 1, 9)>>,
     C |-> <<PickRow(<<"1", "S">>, <<"1">>, <<"3", "1">>,
                     PlayerLink(<<"1", "0", "4">>, <<"E", "d">>),
                     <<"2", "2">>, <<"0">>, <<"4", ".", "0">>, <<"4", ".", "0">>),
             PickRow(<<"0">>, <<"2">>, <<"5">>,
                     PlayerLink(<<"1", "0", "5">>, <<"F", "o">>),
                     <<"2", "2">>, <<"0">>, <<"1", ".", "0">>, <<"1", ".", "0">>),
             PickRow(<<"4">>, <<"2">>, <<>>,
                     PlayerLink(<<"1", "0", "6">>, <<"G", "i">>),
                     <<"2", "3">>, <<"0">>, <<"1", ".", "0">>, <<"1", ".", "0">>)>>]

\* what urlopen does with a request: it raises, or the site answers with
\* one of its pages
Answers == {"error"} \cup DOMAIN Pages

\* the most requests of a run that the site answers with a page
MaxPages == 2

PagesOf(requests) == SelectSeq(requests, LAMBDA r : r.answer # "error")

ScrapeInit ==
    /\ csv = NoFile /\ MainStart /\ CvIdle /\ FmIdle /\ OcIdle
    /\ MgIdle /\ WarIdle /\ AdIdle /\ StIdle
    /\ scPc = "scrape"
    /\ year = FIRST_DRAFT
    /\ all_picks = <<>>
    /\ scOut = <<>>
    /\ fetched = <<>>

\* the line of the loop for the picks of a year
YearLine(y, picks) ==
    IF picks # <<>>
    THEN [ev |-> "year", year |-> y,
          data |-> <<Len(picks),
                     Len(SelectSeq(picks, LAMBDA p : p.war # RInt(0))),
                     FormatFixed(
                        RDiv(RSum([i \in DOMAIN picks |-> picks[i].war]),
                             RInt(Len(picks))), 1)>>]
    ELSE [ev |-> "FAILED", year |-> y, data |-> <<>>]

\* an iteration that starts again from an empty all_picks when the fetch
\* fails
ScrapeYearFetchFailsClearing ==
    /\ scPc = "scrape"
    /\ year < DRAFT_STOP
    /\ fetched' = Append(fetched, [year |-> year, answer |-> "error"])
    /\ all_picks' = <<>>
    /\ scOut' = scOut \o <<[ev |-> "ERROR", year |-> year, data |-> <<>>],
                           YearLine(year, <<>>)>>
    /\ year' = year + 1
    /\ UNCHANGED <<scPc, scOthers>>

\* one iteration of the loop, lines 97-105, in which urlopen raises:
\* scrape_draft_year prints the error and returns []
ScrapeYearFetchFails ==
    /\ scPc = "scrape"
    /\ year < DRAFT_STOP
    /\ fetched' = Append(fetched, [year |-> year, answer |-> "error"])
    /\ all_picks' = all_picks \o <<>>
    /\ scOut' = scOut \o <<[ev |-> "ERROR", year |-> year, data |-> <<>>],
                           YearLine(year, <<>>)>>
    /\ year' = year + 1
    /\ UNCHANGED <<scPc, scOthers>>

\* one iteration of the loop in which the site answers with a page
ScrapeYearFetched ==
    /\ scPc = "scrape"
    /\ year < DRAFT_STOP
    /\ Len(PagesOf(fetched)) < MaxPages
    /\ \E page \in DOMAIN Pages :
          LET picks == PicksOfPage(year, Pages[page])
          IN  /\ fetched' = Append(fetched, [year |-> year, answer |-> page])
              /\ all_picks' = all_picks \o picks
              /\ scOut' = Append(scOut, YearLine(year, picks))
    /\ year' = year + 1
    /\ UNCHANGED <<scPc, scOthers>>

\* line 107, after the loop: the total
PrintTotal ==
    /\ scPc = "scrape"
    /\ year = DRAFT_STOP
    /\ scOut' = Append(scOut,
          [ev |-> "total", year |-> 0,
           data |-> <<Len(all_picks),
                      Cardinality({all_picks[i].year : i \in DOMAIN all_picks})>>])
    /\ scPc' = "scraped"
    /\ UNCHANGED <<year, all_picks, fetched, scOthers>>

ScrapeNext ==
    \/ ScrapeYearFetchFails
    \/ ScrapeYearFetched
    \/ PrintTotal

SpecScrape == ScrapeInit /\ [][ScrapeNext]_vars


(***************************************************************************)
(* The statistics lines of the draft-data scripts: stats_line of           *)
(* analyze_2010.py, describe of triple_h_deep_dive.py and the trait line   *)
(* of analyze_drafts.py.  A line is a record of the numbers it prints, as  *)
(* formatted.                                                              *)
(***************************************************************************)
\* sorted(vals) of a list of floats, by insertion
RECURSIVE InsertSorted(_, _)
InsertSorted(s, v) ==
    IF s = <<>> THEN <<v>>
    ELSE IF RLess(v, Head(s)) THEN <<v>> \o s
    ELSE <<Head(s)>> \o InsertSorted(Tail(s), v)

RECURSIVE Sorted(_)
Sorted(vals) ==
    IF vals = <<>> THEN <<>>
    ELSE InsertSorted(Sorted(SubSeq(vals, 1, Len(vals) - 1)), vals[Len(vals)])

\* max(vals) of a non-empty list
MaxOf(vals) == Sorted(vals)[Len(vals)]

\* sum(1 for v in vals if v > 0), if v < 0, if v >= bound
CountPositive(vals) == Len(SelectSeq(vals, LAMBDA v : RLess(RInt(0), v)))

CountNegative(vals) == Len(SelectSeq(vals, LAMBDA v : RLess(v, RInt(0))))

CountAtLeast(vals, bound) == Len(SelectSeq(vals, LAMBDA v : ~RLess(v, bound)))

\* a number that is not printed
Blank == [k |-> "none", neg |-> FALSE, mag |-> 0, dec |-> 0]

\* the place of a number whose division raised ZeroDivisionError
ZeroDivision == [k |-> "ZeroDivisionError", neg |-> FALSE, mag |-> 0, dec |-> 0]

\* f"{a / n:.<dec>f}" for a float or int a and a count n: Python raises
\* ZeroDivisionError when n is 0
FormatQuotient(a, n, dec) ==
    IF n = 0 THEN ZeroDivision ELSE FormatFixed(RDiv(a, RInt(n)), dec)

\* f"{100 * k / n:.<dec>f}" for two counts
FormatPercent(k, n, dec) == FormatQuotient(RInt(100 * k), n, dec)

\* the line of a group without players
NoPlayersLine(ev, label) ==
    [ev |-> ev, label |-> label, text |-> "No players", n |-> 0,
     avg |-> Blank, med |-> Blank, counts |-> <<>>, rates |-> <<>>,
     tails |-> <<>>]

\* stats_line(vals, label), analyze_2010.py
stats_line(vals, label) ==
    IF vals = <<>> THEN NoPlayersLine("stats_line", label)
    ELSE LET n     == Len(vals)
             med   == Sorted(vals)[n \div 2 + 1]
             pos   == CountPositive(vals)
             top3  == CountAtLeast(vals, RInt(3))
             top10 == CountAtLeast(vals, RInt(10))
             bust  == CountNegative(vals)
         IN  [ev |-> "stats_line", label |-> label, text |-> "", n |-> n,
              avg |-> FormatQuotient(RSum(vals), n, 1),
              med |-> FormatFixed(med, 1),
              counts |-> <<>>,
              rates |-> <<FormatPercent(bust, n, 0), FormatPercent(pos, n, 0),
                          FormatPercent(top3, n, 0),
                          FormatPercent(top10, n, 0)>>,
              tails |-> <<>>]

\* [p['war'] for p in players]
WarsOf(players) == [i \in DOMAIN players |-> players[i].war]

\* describe(group, label), triple_h_deep_dive.py; the line it prints.  The
\* indexes int(len * 0.75) and int(len * 0.9) are exact for the short lists
\* at hand
describe(players, label) ==
    IF players = <<>>
    THEN [NoPlayersLine("describe", label) EXCEPT !.text = "no players"]
    ELSE LET wars  == WarsOf(players)
             n     == Len(wars)
             med   == Sorted(wars)[n \div 2 + 1]
             mlb   == Len(SelectSeq(players, LAMBDA p : p.mlb))
             top5  == CountAtLeast(wars, RInt(5))
             top10 == CountAtLeast(wars, RInt(10))
             top20 == CountAtLeast(wars, RInt(20))
             bust  == Len(SelectSeq(players,
                              LAMBDA p : ~p.mlb \/ RLess(p.war, RInt(0))))
             p75   == IF n >= 4 THEN Sorted(wars)[(n * 3) \div 4 + 1]
                      ELSE MaxOf(wars)
             p90   == IF n >= 10 THEN Sorted(wars)[(n * 9) \div 10 + 1]
                      ELSE MaxOf(wars)
         IN  [ev |-> "describe", label |-> label, text |-> "", n |-> n,
              avg |-> FormatQuotient(RSum(wars), n, 1),
              med |-> FormatFixed(med, 1),
              counts |-> <<>>,
              rates |-> <<FormatPercent(mlb, n, 0), FormatPercent(bust, n, 0),
                          FormatPercent(top5, n, 0), FormatPercent(top10, n, 0),
                          FormatPercent(top20, n, 0)>>,
              tails |-> <<FormatFixed(p75, 1), FormatFixed(p90, 1)>>]

\* one level of a trait table of analyze_drafts.py
TraitLine(vals, label) ==
    IF vals = <<>> THEN NoPlayersLine("trait", label)
    ELSE LET n   == Len(vals)
             med == Sorted(vals)[n \div 2 + 1]
             pos == CountPositive(vals)
             top == CountAtLeast(vals, RInt(3))
         IN  [ev |-> "trait", label |-> label, text |-> "", n |-> n,
              avg |-> FormatQuotient(RSum(vals), n, 2),
              med |-> FormatFixed(med, 2),
              counts |-> <<pos, n, top, n>>,
              rates |-> <<FormatPercent(pos, n, 0), FormatPercent(top, n, 0)>>,
              tails |-> <<>>]

\* the longest list of players handed to the statistics lines
MaxGroup == 3

\* career WARs of the players of a list: a bust, two modest careers that
\* differ, and a star
WarSamples == {Rat(-1, 2), RInt(1), Rat(5, 2), RInt(12)}

\* a player of a list: the career WAR, and whether the player reached MLB
GroupPlayers == [war : WarSamples, mlb : BOOLEAN]

Groups == UNION {[1..k -> GroupPlayers] : k \in 0..MaxGroup}

StatsInit ==
    /\ csv = NoFile /\ MainStart /\ CvIdle /\ FmIdle /\ OcIdle
    /\ MgIdle /\ WarIdle /\ ScIdle /\ AdIdle
    /\ group \in Groups
    /\ stPc = "stats_line"
    /\ stOut = <<>>

\* print(stats_line(wars, label)) for the WARs of the list
PrintStatsLine ==
    /\ stPc = "stats_line"
    /\ stOut' = Append(stOut, stats_line(WarsOf(group), "H"))
    /\ stPc' = "describe"
    /\ UNCHANGED <<group, stOthers>>

\* describe(group, label)
Describe ==
    /\ stPc = "describe"
    /\ stOut' = Append(stOut, describe(group, "Triple H"))
    /\ stPc' = "trait"
    /\ UNCHANGED <<group, stOthers>>

\* the body of the level loop of a trait table, for the WARs of the list
PrintTraitLine ==
    /\ stPc = "trait"
    /\ stOut' = Append(stOut, TraitLine(WarsOf(group), "H"))
    /\ stPc' = "done"
    /\ UNCHANGED <<group, stOthers>>

StatsNext ==
    \/ PrintStatsLine
    \/ Describe
    \/ PrintTraitLine

SpecStats == StatsInit /\ [][StatsNext]_vars


(***************************************************************************)
(* src/data/draft_data/analyze_drafts.py.  The script loads the players    *)
(* that have a WAR from seven CSV exports and prints tables of statistics  *)
(* of their WAR by groups.  A row of an export is kept with the cells the  *)
(* statistics read; names, ids and OVR are printed or stored only.  None   *)
(* is the empty text where a text is expected, since get_col never returns *)
(* an empty text.                                                          *)
(***************************************************************************)
LOWER_LETTERS ==
    <<"a", "b", "c", "d", "e", "f", "g", "h", "i", "j", "k", "l", "m", "n", "o", "p", "q", "r", "s", "t", "u", "v", "w", "x", "y", "z">>

UPPER_LETTERS ==
    <<"A", "B", "C", "D", "E", "F", "G", "H", "I", "J", "K", "L", "M", "N", "O", "P", "Q", "R", "S", "T", "U", "V", "W", "X", "Y", "Z">>

\* str.upper()
UpperChar(c) ==
    IF \E i \in DOMAIN LOWER_LETTERS : LOWER_LETTERS[i] = c
    THEN UPPER_LETTERS[CHOOSE i \in DOMAIN LOWER_LETTERS : LOWER_LETTERS[i] = c]
    ELSE c

Upper(text) == [i \in DOMAIN text |-> UpperChar(text[i])]

\* text.replace(pat, '')
RECURSIVE Removed(_, _)
Removed(text, pat) ==
    IF Len(text) < Len(pat) THEN text
    ELSE IF SubSeq(text, 1, Len(pat)) = pat
         THEN Removed(SubSeq(text, Len(pat) + 1, Len(text)), pat)
    ELSE <<Head(text)>> \o Removed(Tail(text), pat)

\* a float or None
NoneFloat == [some |-> FALSE, r |-> RInt(0)]

SomeFloat(r) == [some |-> TRUE, r |-> r]

\* get_col(row, c) for a column c of the file: the stripped cell, None for
\* a blank cell
get_col(row, c) == Strip(row[c])

\* normalize_trait(val): "H", "N", "L", and "" for None
normalize_trait(val) ==
    IF val = <<>> \/ Strip(val) = <<>> \/ Strip(val) = <<"U">> THEN ""
    ELSE LET v == Upper(Strip(val))
         IN  IF v \in {<<"H">>, <<"H", "I", "G", "H">>} THEN "H"
             ELSE IF v \in {<<"N">>, <<"N", "O", "R", "M", "A", "L">>} THEN "N"
             ELSE IF v \in {<<"L">>, <<"L", "O", "W">>} THEN "L"
             ELSE ""

\* parse_war(val)
parse_war(val) ==
    IF val = <<>> \/ Strip(val) = <<>> THEN NoneFloat
    ELSE IF IsFloatText(Strip(val)) THEN SomeFloat(FloatText(Strip(val)))
    ELSE NoneFloat

\* parse_pot(val)
parse_pot(val) ==
    IF val = <<>> THEN NoneFloat
    ELSE LET v == Removed(Removed(Strip(val), <<" ", "S", "t", "a", "r", "s">>),
                          <<" ", "S", "t", "a", "r">>)
         IN  IF IsFloatText(v) THEN SomeFloat(FloatText(v)) ELSE NoneFloat

\* the dict appended to all_players for a row with a WAR
DraftPlayer(row, draft_year, ptype) ==
    [draft_year |-> draft_year,
     type |-> ptype,
     age  |-> get_col(row, "Age"),
     war  |-> parse_war(get_col(row, "WAR")).r,
     pot  |-> parse_pot(get_col(row, "POT")),
     lea  |-> normalize_trait(get_col(row, "LEA")),
     we   |-> normalize_trait(get_col(row, "WE")),
     int  |-> normalize_trait(get_col(row, "INT")),
     prone |-> get_col(row, "Prone")]

\* one load loop: the rows of a file with a WAR, appended in file order
RECURSIVE LoadDraftFile(_, _, _, _)
LoadDraftFile(ps, rows, draft_year, ptype) ==
    IF rows = <<>> THEN ps
    ELSE LoadDraftFile(
             IF parse_war(get_col(Head(rows), "WAR")).some
             THEN Append(ps, DraftPlayer(Head(rows), draft_year, ptype))
             ELSE ps,
             Tail(rows), draft_year, ptype)

\* the seven load loops, in the order of the script
LoadDraftFiles(files) ==
    LET a == LoadDraftFile(<<>>, files.pitchers_2016, 2016, "pitcher")
        b == LoadDraftFile(a, files.pitching_2018, 2018, "pitcher")
        c == LoadDraftFile(b, files.batters_2018, 2018, "batter")
        d == LoadDraftFile(c, files.pitchers_2019, 2019, "pitcher")
        e == LoadDraftFile(d, files.batters_2019, 2019, "batter")
        f == LoadDraftFile(e, files.pitchers_2021, 2021, "pitcher")
    IN  LoadDraftFile(f, files.batters_2021, 2021, "batter")

\* [p for p in ps if p['type'] == ptype]
OfType(ps, ptype) == SelectSeq(ps, LAMBDA p : p.type = ptype)

\* the WARs of the players whose trait key is at level lvl
WarsAtLevel(ps, key, lvl) == WarsOf(SelectSeq(ps, LAMBDA p : p[key] = lvl))

\* the three levels of one trait table
TraitTable(ps, key) ==
    <<TraitLine(WarsAtLevel(ps, key, "H"), "H"),
      TraitLine(WarsAtLevel(ps, key, "N"), "N"),
      TraitLine(WarsAtLevel(ps, key, "L"), "L")>>

\* ANALYSIS 1, the tables of WE, LEA and INT
TraitLines(ps) ==
    TraitTable(ps, "we") \o TraitTable(ps, "lea") \o TraitTable(ps, "int")

\* ANALYSIS 1, the WE table of the pitchers and of the batters
TraitByTypeLines(ps) ==
    TraitTable(OfType(ps, "pitcher"), "we")
        \o TraitTable(OfType(ps, "batter"), "we")

\* a line of a table without a median: the average to 2 decimals and the
\* rates of the counts to dec decimals
GroupLine(ev, label, wars, counts, dec) ==
    [ev |-> ev, label |-> label, text |-> "", n |-> Len(wars),
     avg |-> FormatQuotient(RSum(wars), Len(wars), 2),
     med |-> Blank,
     counts |-> counts,
     rates |-> [i \in DOMAIN counts |-> FormatPercent(counts[i], Len(wars), dec)],
     tails |-> <<>>]

\* one group of the combined traits
CombinedLine(ps, label) ==
    IF ps = <<>> THEN NoPlayersLine("combined", label)
    ELSE GroupLine("combined", label, WarsOf(ps),
                   <<CountPositive(WarsOf(ps)),
                     CountAtLeast(WarsOf(ps), RInt(3))>>, 0)

\* ANALYSIS 1, the combined traits
CombinedLines(ps) ==
    <<CombinedLine(SelectSeq(ps, LAMBDA p : p.we = "H" /\ p.int = "H"),
                   "High WE + High INT"),
      CombinedLine(SelectSeq(ps, LAMBDA p : p.we = "N" /\ p.int = "N"),
                   "Normal WE + Normal INT"),
      CombinedLine(SelectSeq(ps, LAMBDA p : p.we = "L" \/ p.int = "L"),
                   "Low WE or Low INT")>>

\* the bust rates of one player type: the four counts, each as a
\* percentage of len(players)
BustRateLine(ps, label) ==
    LET wars == WarsOf(ps)
        n    == Len(ps)
        busts       == CountNegative(wars)
        disappoints == Len(SelectSeq(wars, LAMBDA w : RLess(w, RInt(1))))
        solid       == CountAtLeast(wars, RInt(2))
        stars       == CountAtLeast(wars, RInt(4))
    IN  [ev |-> "bust_rates", label |-> label, text |-> "", n |-> n,
         avg |-> Blank, med |-> Blank,
         counts |-> <<busts, disappoints, solid, stars>>,
         rates |-> <<FormatPercent(busts, n, 1),
                     FormatPercent(disappoints, n, 1),
                     FormatPercent(solid, n, 1),
                     FormatPercent(stars, n, 1)>>,
         tails |-> <<>>]

\* ANALYSIS 2, the bust rates of all players, the pitchers and the batters
BustRateLines(ps) ==
    <<BustRateLine(ps, "ALL PLAYERS"),
      BustRateLine(OfType(ps, "pitcher"), "PITCHERS"),
      BustRateLine(OfType(ps, "batter"), "BATTERS")>>

\* the POT bucket of a player with a POT
PotBucket(pot) ==
    IF ~RLess(pot, Rat(9, 2)) THEN "4.5-5.0*"
    ELSE IF ~RLess(pot, Rat(7, 2)) THEN "3.5-4.0*"
    ELSE IF ~RLess(pot, Rat(5, 2)) THEN "2.5-3.0*"
    ELSE IF ~RLess(pot, Rat(3, 2)) THEN "1.5-2.0*"
    ELSE "0.5-1.0*"

\* the line of one bucket of a table that skips its empty groups, with the
\* bust rate and the rate of WAR >= 3
BucketLine(ev, label, wars) ==
    IF wars = <<>> THEN <<>>
    ELSE <<GroupLine(ev, label, wars,
                     <<CountNegative(wars), CountAtLeast(wars, RInt(3))>>, 1)>>

PotLine(ps, bucket) ==
    BucketLine("pot", bucket,
               WarsOf(SelectSeq(ps, LAMBDA p :
                          p.pot.some /\ PotBucket(p.pot.r) = bucket)))

\* ANALYSIS 2, the bust rate by draft potential
PotLines(ps) ==
    PotLine(ps, "4.5-5.0*") \o PotLine(ps, "3.5-4.0*")
        \o PotLine(ps, "2.5-3.0*") \o PotLine(ps, "1.5-2.0*")
        \o PotLine(ps, "0.5-1.0*")

\* the age bucket of a player, "" when the age is None or not a number
AgeBucket(age) ==
    IF age = <<>> \/ ~IsFloatText(age) THEN ""
    ELSE IF ~RLess(RInt(18), FloatText(age)) THEN "17-18 (HS)"
    ELSE IF ~RLess(RInt(20), FloatText(age)) THEN "19-20"
    ELSE "21-23 (College)"

AgeLine(ps, bucket) ==
    LET vals == WarsOf(SelectSeq(ps, LAMBDA p : AgeBucket(p.age) = bucket))
    IN  IF vals = <<>> THEN <<>>
        ELSE <<[GroupLine("age", bucket, vals,
                          <<CountNegative(vals),
                            CountAtLeast(vals, RInt(3))>>, 1)
                EXCEPT !.med = FormatFixed(
                                   Sorted(vals)[Len(vals) \div 2 + 1], 2)]>>

\* ANALYSIS 3, WAR by draft age
AgeLines(ps) ==
    AgeLine(ps, "17-18 (HS)") \o AgeLine(ps, "19-20")
        \o AgeLine(ps, "21-23 (College)")

ProneLine(ps, lvl, label) ==
    BucketLine("prone", label,
               WarsOf(SelectSeq(ps, LAMBDA p : p.prone = lvl)))

\* ANALYSIS 4, injury proneness
ProneLines(ps) ==
    ProneLine(ps, <<"D", "u", "r", "a", "b", "l", "e">>, "Durable")
        \o ProneLine(ps, <<"N", "o", "r", "m", "a", "l">>, "Normal")
        \o ProneLine(ps, <<"F", "r", "a", "g", "i", "l", "e">>, "Fragile")

\* sorted(ps, key=lambda p: p['war'], reverse=True): the highest WAR first,
\* players of equal WAR in their order in ps
RECURSIVE InsertByWar(_, _)
InsertByWar(s, p) ==
    IF s = <<>> THEN <<p>>
    ELSE IF RLess(Head(s).war, p.war) THEN <<p>> \o s
    ELSE <<Head(s)>> \o InsertByWar(Tail(s), p)

RECURSIVE SortedByWar(_)
SortedByWar(ps) ==
    IF ps = <<>> THEN <<>>
    ELSE InsertByWar(SortedByWar(SubSeq(ps, 1, Len(ps) - 1)), ps[Len(ps)])

\* the length of the lists of top and bottom performers
TOP_COUNT == 20

\* s[:TOP_COUNT] and s[-TOP_COUNT:]
FirstOf(s) == SubSeq(s, 1, IF Len(s) < TOP_COUNT THEN Len(s) ELSE TOP_COUNT)

LastOf(s) ==
    SubSeq(s, IF Len(s) < TOP_COUNT THEN 1 ELSE Len(s) - TOP_COUNT + 1, Len(s))

\* a number whose formatting raised TypeError, as f"{None:.1f}" does
TypeErrorRaised == [k |-> "TypeError", neg |-> FALSE, mag |-> 0, dec |-> 0]

\* the line of one performer: the WAR to 2 decimals and the POT to 1
PerformerLine(p, label) ==
    [ev |-> "performer", label |-> label, text |-> "", n |-> 1,
     avg |-> FormatFixed(p.war, 2), med |-> Blank, counts |-> <<>>,
     rates |-> <<>>,
     tails |-> <<IF p.pot.some THEN FormatFixed(p.pot.r, 1)
                 ELSE TypeErrorRaised>>]

\* ANALYSIS 5, the top and the bottom performers
PerformerLines(ps) ==
    [i \in DOMAIN FirstOf(SortedByWar(ps)) |->
        PerformerLine(FirstOf(SortedByWar(ps))[i], "top")]
    \o [i \in DOMAIN LastOf(SortedByWar(ps)) |->
        PerformerLine(LastOf(SortedByWar(ps))[i], "bottom")]

\* one trait level within a POT tier of ANALYSIS 7: the average and the
\* bust rate, a level without players being skipped
TierLine(ps, key, lvl, pot_min, pot_max) ==
    LET wars == WarsOf(SelectSeq(ps, LAMBDA p :
                    /\ p.pot.some
                    /\ ~RLess(p.pot.r, pot_min)
                    /\ ~RLess(pot_max, p.pot.r)
                    /\ p[key] = lvl))
    IN  IF wars = <<>> THEN <<>>
        ELSE <<GroupLine("tier", lvl, wars, <<CountNegative(wars)>>, 1)>>

TierTable(ps, key, pot_min, pot_max) ==
    TierLine(ps, key, "H", pot_min, pot_max)
        \o TierLine(ps, key, "N", pot_min, pot_max)
        \o TierLine(ps, key, "L", pot_min, pot_max)

\* ANALYSIS 7, the effect of a trait within the high, medium and low POT
TierLines(ps, key) ==
    TierTable(ps, key, Rat(7, 2), Rat(11, 2))
        \o TierTable(ps, key, Rat(5, 2), Rat(17, 5))
        \o TierTable(ps, key, Rat(1, 2), Rat(12, 5))

\* the exception that printing a line raises, "" for none
RaisedBy(line) ==
    LET nums == <<line.avg, line.med>> \o line.rates \o line.tails
    IN  IF \E i \in DOMAIN nums : nums[i].k = "ZeroDivisionError"
        THEN "ZeroDivisionError"
        ELSE IF \E i \in DOMAIN nums : nums[i].k = "TypeError"
        THEN "TypeError"
        ELSE ""

\* the lines of a section printed before one of them raises
RECURSIVE PrintedOf(_)
PrintedOf(lines) ==
    IF lines = <<>> \/ RaisedBy(Head(lines)) # "" THEN <<>>
    ELSE <<Head(lines)>> \o PrintedOf(Tail(lines))

\* the exception that ends a section, "" when all its lines are printed
RaisedIn(lines) ==
    IF Len(PrintedOf(lines)) = Len(lines) THEN ""
    ELSE RaisedBy(lines[Len(PrintedOf(lines)) + 1])

\* the most rows of one export
MaxDraftRows == 1

\* rows of an export: a star, a bust, a row without a WAR, a player whose
\* POT, age and traits are unknown, and a replacement-level player
DraftRows ==
    {[WAR |-> <<"4", ".", "5">>, POT |-> <<"4", ".", "5", " ", "S", "t", "a", "r", "s">>, Age |-> <<"1", "8">>,
     WE |-> <<"H">>, LEA |-> <<"N">>, INT |-> <<"H", "i", "g", "h">>,
     Prone |-> <<"D", "u", "r", "a", "b", "l", "e">>],
     [WAR |-> <<"-", "0", ".", "5">>, POT |-> <<"2", ".", "0", " ", "S", "t", "a", "r", "s">>, Age |-> <<"2", "1">>,
     WE |-> <<"L", "o", "w">>, LEA |-> <<"L">>, INT |-> <<"N">>,
     Prone |-> <<"F", "r", "a", "g", "i", "l", "e">>],
     [WAR |-> <<" ">>, POT |-> <<"4", ".", "5", " ", "S", "t", "a", "r", "s">>, Age |-> <<"1", "8">>,
     WE |-> <<"H">>, LEA |-> <<"N">>, INT |-> <<"H", "i", "g", "h">>,
     Prone |-> <<"D", "u", "r", "a", "b", "l", "e">>],
     [WAR |-> <<"1", ".", "0">>, POT |-> <<"-">>, Age |-> <<"-">>,
     WE |-> <<"U">>, LEA |-> <<>>, INT |-> <<>>,
     Prone |-> <<" ", " ">>],
     [WAR |-> <<"0", ".", "0">>, POT |-> <<"1", " ", "S", "t", "a", "r">>, Age |-> <<"2", "0">>,
     WE |-> <<"n", "o", "r", "m", "a", "l">>, LEA |-> <<"H">>, INT |-> <<"n">>,
     Prone |-> <<"N", "o", "r", "m", "a", "l">>]}

DraftExports == UNION {[1..k -> DraftRows] : k \in 0..MaxDraftRows}

\* the seven exports: the 2016 pitchers and the 2018 batters hold any rows,
\* the other files hold no player
DraftFiles ==
    [pitchers_2016 : DraftExports, pitching_2018 : {<<>>},
     batters_2018 : DraftExports, pitchers_2019 : {<<>>},
     batters_2019 : {<<>>}, pitchers_2021 : {<<>>}, batters_2021 : {<<>>}]

DraftsInit ==
    /\ csv = NoFile /\ MainStart /\ CvIdle /\ FmIdle /\ OcIdle
    /\ MgIdle /\ WarIdle /\ ScIdle /\ StIdle
    /\ draft_files \in DraftFiles
    /\ adPc = "load"
    /\ draft_players = <<>>
    /\ adOut = <<>>
    /\ adExc = ""

\* the load loops and the totals printed after them
LoadPlayers ==
    /\ adPc = "load"
    /\ draft_players' = LoadDraftFiles(draft_files)
    /\ adOut' = <<[NoPlayersLine("loaded", "Total players loaded")
                   EXCEPT !.text = "",
                          !.n = Len(LoadDraftFiles(draft_files)),
                          !.counts = <<Len(OfType(LoadDraftFiles(draft_files),
                                                  "pitcher")),
                                       Len(OfType(LoadDraftFiles(draft_files),
                                                  "batter"))>>]>>
    /\ adPc' = "traits"
    /\ UNCHANGED <<draft_files, adExc, adOthers>>

\* the end of a section of the script: its lines are printed up to the
\* first that raises, and the script goes on to the next section or ends
\* with the exception
Section(lines, next) ==
    /\ adOut' = adOut \o PrintedOf(lines)
    /\ adExc' = RaisedIn(lines)
    /\ adPc' = IF RaisedIn(lines) = "" THEN next ELSE "aborted"
    /\ UNCHANGED <<draft_files, draft_players, adOthers>>

PrintTraits ==
    /\ adPc = "traits"
    /\ Section(TraitLines(draft_players), "by_type")

PrintTraitsByType ==
    /\ adPc = "by_type"
    /\ Section(TraitByTypeLines(draft_players), "combined")

PrintCombined ==
    /\ adPc = "combined"
    /\ Section(CombinedLines(draft_players), "bust_rates")

PrintBustRates ==
    /\ adPc = "bust_rates"
    /\ Section(BustRateLines(draft_players), "pot")

PrintBustRateByPot ==
    /\ adPc = "pot"
    /\ Section(PotLines(draft_players), "age")

PrintWarByAge ==
    /\ adPc = "age"
    /\ Section(AgeLines(draft_players), "prone")

PrintInjuryProneness ==
    /\ adPc = "prone"
    /\ Section(ProneLines(draft_players), "performers")

PrintPerformers ==
    /\ adPc = "performers"
    /\ Section(PerformerLines(draft_players), "we_by_pot")

PrintWorkEthicByPot ==
    /\ adPc = "we_by_pot"
    /\ Section(TierLines(draft_players, "we"), "int_by_pot")

PrintIntelligenceByPot ==
    /\ adPc = "int_by_pot"
    /\ Section(TierLines(draft_players, "int"), "done")

DraftsNext ==
    \/ LoadPlayers
    \/ PrintTraits
    \/ PrintTraitsByType
    \/ PrintCombined
    \/ PrintBustRates
    \/ PrintBustRateByPot
    \/ PrintWarByAge
    \/ PrintInjuryProneness
    \/ PrintPerformers
    \/ PrintWorkEthicByPot
    \/ PrintIntelligenceByPot

SpecDrafts == DraftsInit /\ [][DraftsNext]_vars

(***************************************************************************)
(* Properties of the table loader.                                         *)
(***************************************************************************)
\* a CSV token that spells a number: digits, "-" and digits, or inf
SpellsNumber(tok) ==
    \/ Len(tok) >= 1 /\ \A i \in DOMAIN tok : tok[i] \in Digits
    \/ Len(tok) >= 2 /\ tok[1] = "-" /\ \A i \in 2..Len(tok) : tok[i] \in Digits
    \/ tok = <<"i", "n", "f">>

\* a row of the file with at least one empty or non-numeric cell
Malformed(row) == \E j \in DOMAIN row : ~SpellsNumber(row[j])

\* the number the token spells
RECURSIVE Spelled(_)
Spelled(tok) ==
    IF tok = <<"i", "n", "f">> THEN Inf
    ELSE IF tok[1] = "-" THEN Num(-Spelled(Tail(tok)).v)
    ELSE IF Len(tok) = 1 THEN Num(DigitVal(tok[1]))
    ELSE Num(10 * Spelled(SubSeq(tok, 1, Len(tok) - 1)).v + DigitVal(tok[Len(tok)]))

\* the well-formed rows of the file, in file order, as numbers
RECURSIVE WellFormedRows(_)
WellFormedRows(rows) ==
    IF rows = <<>> THEN <<>>
    ELSE (IF Malformed(Head(rows)) THEN <<>>
          ELSE <<[j \in DOMAIN Head(rows) |-> Spelled(Head(rows)[j])]>>)
         \o WellFormedRows(Tail(rows))

Loaded == csv.exists /\ pc # "start"

\* C1: once the table is loaded, self.df holds exactly the rows of the file
\* without an empty or non-numeric cell, as numbers and in file order, under
\* the file's header; its length is the number of rows of the file minus the
\* number of malformed rows.
C1_LoaderDropsMalformedRows ==
    Loaded =>
        /\ df.columns = csv.header
        /\ df.data = WellFormedRows(csv.rows)
        /\ Len(df.data) = Len(csv.rows)
              - Cardinality({i \in DOMAIN csv.rows : Malformed(csv.rows[i])})

\* a loaded table that kept one row and dropped another, malformed one that
\* is not blank
C1_Witness ==
    /\ pc = "loaded"
    /\ Len(df.data) = 1
    /\ Len(csv.rows) = 2
    /\ \E i \in DOMAIN csv.rows :
          /\ Malformed(csv.rows[i])
          /\ \E j \in DOMAIN csv.rows[i] : csv.rows[i][j] # <<>>

(***************************************************************************)
(* Properties of the scale converters (under SpecConvert).                 *)
(***************************************************************************)
\* C2: the converters are mutual inverses: to_editor after to_ui, and to_ui
\* after to_editor, give back the starting value, for every starting value,
\* in or out of the documented ranges.
C2_ConvertersAreInverses ==
    /\ cvPath = <<"to_ui", "to_editor">> => cvVal = cvOrig
    /\ cvPath = <<"to_editor", "to_ui">> => cvVal = cvOrig

\* a round trip that started above the editor scale's upper end, 250
C2_Witness ==
    /\ cvPath = <<"to_ui", "to_editor">>
    /\ RLess(RInt(250), cvOrig)
    /\ cvVal = cvOrig

(***************************************************************************)
(* Properties of fitting and of run_analysis.                              *)
(***************************************************************************)
Printed(ev, stat) == \E i \in DOMAIN out : out[i].ev = ev /\ out[i].stat = stat

\* the output columns the table has, in OUTPUT_COLS order
PresentOutputs == SelectSeq(OUTPUT_COLS, LAMBDA c : c \in Range(df.columns))

Terminated == pc \in {"done", "aborted"}

\* C3: with fewer rows than the 6 parameters of the linear model, no fit
\* returns a model: run_analysis stores none and no polynomial model is
\* reported.
C3_UnderdeterminedFitRaises ==
    (Loaded /\ Len(df.data) < Len(INPUT_COLS) + 1) =>
        /\ models = <<>>
        /\ \A i \in DOMAIN out : out[i].ev # "polynomial"

\* C4: a fit error stops only its own stat: when the run has ended, every
\* output stat of the table whose fit succeeds has a model.
C4_FitErrorSkipsOneStat ==
    (csv.exists /\ Terminated) =>
        \A i \in DOMAIN PresentOutputs :
            AnalyzeLinear(df, PresentOutputs[i]).ok
                => PresentOutputs[i] \in DictKeys(models)

\* C5 as stated: a table that lacks any of the ten required columns ends the
\* run with nothing analysed, no model stored and no report.
C5_MissingColumnAborts ==
    (Loaded /\ ~HasCols(df, ALL_COLS)) =>
        /\ models = <<>>
        /\ results = <<>>
        /\ pc \notin {"summary", "table", "predict", "done"}

\* C5, amended: a table that lacks an input rating never gets a model or a
\* result: the first output stat the table has ends the run with a KeyError
\* raised by analyze_linear, so the reports are reached only when the table
\* has no output stat at all.  A missing output stat alone never ends the
\* run: it gets no model, and once the loop is past it, it was reported as
\* skipped.
C5_MissingInputColumnAborts ==
    Loaded =>
        /\ ~HasCols(df, INPUT_COLS) =>
              /\ models = <<>>
              /\ results = <<>>
              /\ pc \in {"summary", "table", "predict", "done"}
                    => PresentOutputs = <<>>
              /\ pc = "aborted" =>
                    /\ exc.type = "KeyError"
                    /\ exc.at = "analyze_linear"
                    /\ exc.stat = PresentOutputs[1]
                    /\ \A i \in DOMAIN out : out[i].ev # "skipping" =>
                          out[i].ev \in {"loaded", "range", "banner", "analyzing"}
        /\ \A i \in DOMAIN OUTPUT_COLS :
              OUTPUT_COLS[i] \notin Range(df.columns) =>
                  /\ OUTPUT_COLS[i] \notin DictKeys(models)
                  /\ exc.stat # OUTPUT_COLS[i]
                  /\ (pc \in {"analysis", "summary", "table", "predict", "done"}
                      /\ idx > i) => Printed("skipping", OUTPUT_COLS[i])

\* the run ended by the KeyError of a missing input rating, after an output
\* stat had been analysed up to the fit
C5_Witness ==
    /\ pc = "aborted"
    /\ exc.type = "KeyError"
    /\ ~HasCols(df, INPUT_COLS)
    /\ Len(df.data) >= 1
    /\ Printed("analyzing", exc.stat)

\* C6: a table left with zero rows fails at load time: the run is over with
\* a data error raised by __init__ and nothing was printed.
C6_EmptyTableFailsAtLoad ==
    (Loaded /\ Len(df.data) = 0) =>
        /\ pc = "aborted"
        /\ exc.at = "__init__"
        /\ out = <<>>

(***************************************************************************)
(* Properties of format_formula (under SpecFormat).                        *)
(***************************************************************************)
Threshold == Rat(1, NEGLIGIBLE_INV)

\* the columns of the terms of a formula, in the order shown
TermCols(f) == [i \in DOMAIN f.terms |-> f.terms[i].col]

CoefOf(model, col) == model.coef_[ColIndex(INPUT_COLS, col)]

SignsMatch(model, f) ==
    \A i \in DOMAIN f.terms :
        /\ f.terms[i].sign = "+" <=> CoefOf(model, f.terms[i].col).n > 0
        /\ f.terms[i].sign = "-" <=> CoefOf(model, f.terms[i].col).n < 0

\* C7 as stated: the omitted terms are exactly those whose coefficient
\* magnitude is below 0.001; the others are shown in INPUT_COLS order, each
\* with the sign of its coefficient.
C7_OmitsBelowThreshold ==
    fmOut # <<>> =>
        /\ TermCols(fmOut[1]) =
              SelectSeq(INPUT_COLS,
                  LAMBDA c : ~RLess(RAbs(CoefOf(fmModel, c)), Threshold))
        /\ SignsMatch(fmModel, fmOut[1])

\* C7, amended: the omitted terms are exactly those whose coefficient
\* magnitude is at most 0.001 (a magnitude of exactly 0.001 is omitted too);
\* the others are shown in INPUT_COLS order, each with "+" exactly when its
\* coefficient is positive and "-" exactly when it is negative.
C7_OmitsUpToThreshold ==
    fmOut # <<>> =>
        /\ TermCols(fmOut[1]) =
              SelectSeq(INPUT_COLS,
                  LAMBDA c : RLess(Threshold, RAbs(CoefOf(fmModel, c))))
        /\ SignsMatch(fmModel, fmOut[1])

\* a formula with a positive term, a negative term and a term left out for
\* a coefficient of exactly -0.001
C7_Witness ==
    /\ fmOut # <<>>
    /\ \E i \in DOMAIN fmOut[1].terms : fmOut[1].terms[i].sign = "+"
    /\ \E i \in DOMAIN fmOut[1].terms : fmOut[1].terms[i].sign = "-"
    /\ \E j \in DOMAIN INPUT_COLS :
          /\ fmModel.coef_[j] = Rat(-1, NEGLIGIBLE_INV)
          /\ INPUT_COLS[j] \notin Range(TermCols(fmOut[1]))

(***************************************************************************)
(* Properties of the fitted models' lifecycle.                             *)
(***************************************************************************)
\* C9: self.models, self.formulas and the table change only in __init__ and
\* in run_analysis's loop, where a step adds the model and the formula of
\* one more stat and changes no earlier one; print_summary,
\* print_coefficient_table and every test_prediction leave all three as
\* they are.
C9_ModelsImmutableAfterFit ==
    [][/\ pc \in {"summary", "table", "predict"} =>
              /\ models' = models
              /\ formulas' = formulas
              /\ df' = df
       /\ (models' # models \/ formulas' # formulas) =>
              /\ pc = "analysis"
              /\ Len(models') = Len(models) + 1
              /\ SubSeq(models', 1, Len(models)) = models
              /\ Len(formulas') = Len(formulas) + 1
              /\ SubSeq(formulas', 1, Len(formulas)) = formulas
       /\ df' # df => pc = "start"]_vars

\* the run is over, all three test_prediction calls made, with models stored
C9_Witness ==
    /\ pc = "done"
    /\ tests = Len(TEST_RATINGS)
    /\ Len(models) >= 2
    /\ DictKeys(formulas) = DictKeys(models)

\* C10 as stated: every retained row has exactly 10 populated numeric
\* fields, the ten of INPUT_COLS and OUTPUT_COLS, whatever the file.
C10_TenNumericFields ==
    Loaded =>
        \A i \in DOMAIN df.data :
            /\ Len(df.data[i]) = Len(ALL_COLS)
            /\ Range(df.columns) = Range(ALL_COLS)
            /\ \A j \in DOMAIN df.data[i] : df.data[i][j].k \in {"num", "inf"}

\* C10, amended: every retained row has one populated numeric field (a
\* number or inf, never nan or a string) per column of the file's header:
\* exactly the 10 fields of INPUT_COLS and OUTPUT_COLS when the header names
\* exactly those ten columns, fewer or more when the header does.
C10_OneNumericFieldPerColumn ==
    Loaded =>
        \A i \in DOMAIN df.data :
            /\ DOMAIN df.data[i] = DOMAIN csv.header
            /\ df.columns = csv.header
            /\ \A j \in DOMAIN df.data[i] : df.data[i][j].k \in {"num", "inf"}
            /\ csv.header = ALL_COLS =>
                  /\ Len(df.data[i]) = 10
                  /\ \A j \in DOMAIN ALL_COLS :
                        df.data[i][ColIndex(df.columns, ALL_COLS[j])].k
                            \in {"num", "inf"}

\* a loaded table of eleven columns that retained a row, of eleven numeric
\* fields, while dropping a row with a non-numeric cell
C10_Witness ==
    /\ pc = "loaded"
    /\ Len(csv.header) = Len(ALL_COLS) + 1
    /\ Len(df.data) = 1
    /\ Len(df.data[1]) = Len(ALL_COLS) + 1
    /\ Len(csv.rows) = 2
    /\ \E i \in DOMAIN csv.rows : \E j \in DOMAIN csv.header :
          csv.rows[i][j] = <<"1", "x">>

(***************************************************************************)
(* Properties of print_coefficient_table.                                  *)
(***************************************************************************)
\* the rows of the coefficient table printed so far
TableRows == SelectSeq(out, LAMBDA e : e.ev = "table_row")

\* the output stats that have a model, in OUTPUT_COLS order
FittedStats == SelectSeq(OUTPUT_COLS, LAMBDA c : c \in DictKeys(models))

TablePrinted == pc \in {"predict", "done"}

\* the row of a stat: the intercept to 2 decimals, then the coefficient of
\* each input rating, in INPUT_COLS order, to 4 decimals
RowShowsModel(row) ==
    /\ row.stat \in DictKeys(models)
    /\ Len(row.data) = 1 + Len(INPUT_COLS)
    /\ row.data[1] = FormatFixed(DictGet(models, row.stat).intercept_, 2)
    /\ \A j \in DOMAIN INPUT_COLS :
          row.data[j + 1] =
              FormatFixed(CoefOf(DictGet(models, row.stat), INPUT_COLS[j]), 4)

\* C11 as stated: the table has one row for each of the five OUTPUT_COLS, in
\* that order, every row giving the intercept and then one coefficient per
\* input rating in INPUT_COLS order.
C11_RowPerOutputStat ==
    TablePrinted =>
        /\ [i \in DOMAIN TableRows |-> TableRows[i].stat] = OUTPUT_COLS
        /\ \A i \in DOMAIN TableRows : RowShowsModel(TableRows[i])

\* C11, amended: the table has one row for each output stat that has a
\* model (a stat whose column the table lacks gets no row), in OUTPUT_COLS
\* order, under one header line that names Stat, Intercept and the input
\* ratings in INPUT_COLS order; every row gives the intercept and then one
\* coefficient per input rating in INPUT_COLS order.
C11_RowPerFittedStat ==
    TablePrinted =>
        /\ [i \in DOMAIN TableRows |-> TableRows[i].stat] = FittedStats
        /\ \A i \in DOMAIN TableRows : RowShowsModel(TableRows[i])
        /\ \E h \in DOMAIN out :
              /\ out[h].ev = "table_header"
              /\ out[h].data = <<"Stat", "Intercept">> \o INPUT_COLS
              /\ \A i \in DOMAIN out : out[i].ev = "table_header" => i = h
              /\ \A i \in DOMAIN TableRows : out[h + i] = TableRows[i]

\* the table printed for a file without the "hr" column: four rows, one of
\* them with a non-zero coefficient
C11_Witness ==
    /\ pc = "predict"
    /\ Len(TableRows) = 4
    /\ "hr" \notin DictKeys(models)
    /\ \E i \in DOMAIN TableRows : \E j \in DOMAIN INPUT_COLS :
          TableRows[i].data[j + 1].mag # 0

(***************************************************************************)
(* Properties of test_prediction (under SpecPredict).                      *)
(***************************************************************************)
\* the value of the linear model on ratings x, term by term
LinearValue(model, x) ==
    RAdd(model.intercept_,
      RAdd(RMul(CoefOf(model, "stuff"), RInt(x[1])),
        RAdd(RMul(CoefOf(model, "control"), RInt(x[2])),
          RAdd(RMul(CoefOf(model, "hra"), RInt(x[3])),
            RAdd(RMul(CoefOf(model, "movement"), RInt(x[4])),
                 RMul(CoefOf(model, "babip"), RInt(x[5])))))))

\* C12: a test_prediction call on any rating vector, inside or outside the
\* training range, prints the ratings and then exactly one value per output
\* stat that has a model, in OUTPUT_COLS order: the value of the stat's
\* linear model on the ratings, to one decimal, negative or large as it
\* may be; the call raises nothing.
C12_OnePredictionPerModel ==
    tests = 1 =>
        /\ exc = NoException
        /\ Len(out) = 1 + Len(FittedStats)
        /\ out[1].ev = "prediction_header"
        /\ \A i \in DOMAIN FittedStats :
              /\ out[i + 1].ev = "prediction"
              /\ out[i + 1].stat = FittedStats[i]
              /\ out[i + 1].data =
                    FormatFixed(LinearValue(DictGet(models, FittedStats[i]),
                                            out[1].data), 1)

\* a call with ratings below and above the scales, on an analyzer without a
\* model for "hr", that printed four values, one of them negative
C12_Witness ==
    /\ tests = 1
    /\ out[1].data[1] = -10
    /\ out[1].data[5] = 300
    /\ Len(out) = 5
    /\ "hr" \notin DictKeys(models)
    /\ \E i \in 2..Len(out) : out[i].data.neg /\ out[i].data.mag > 0

(***************************************************************************)
(* The converters as affine maps (under SpecConvert).                      *)
(***************************************************************************)
\* b = b0 + (a - a0) * num / den, over the integers
OnLine(a, a0, b, b0, num, den) ==
    (b.n - b0 * b.d) * den * a.d = (a.n - a0 * a.d) * num * b.d

\* C13: convert_babip_to_ui is the line through (1, 20) and (250, 80) and
\* convert_babip_to_editor the line through (20, 1) and (80, 250): one call
\* sends the end points to the end points and every other value, inside or
\* outside the scale, to the point of the same line; no value is clamped
\* or refused.
C13_ConvertersAreAffine ==
    /\ cvPath = <<"to_ui">> =>
          /\ OnLine(cvOrig, 1, cvVal, 20, 80 - 20, 250 - 1)
          /\ cvOrig = RInt(1) => cvVal = RInt(20)
          /\ cvOrig = RInt(250) => cvVal = RInt(80)
    /\ cvPath = <<"to_editor">> =>
          /\ OnLine(cvOrig, 20, cvVal, 1, 250 - 1, 80 - 20)
          /\ cvOrig = RInt(20) => cvVal = RInt(1)
          /\ cvOrig = RInt(80) => cvVal = RInt(250)

\* one convert_babip_to_ui call on a value above the editor scale, whose
\* result lies above the UI scale
C13_Witness ==
    /\ cvPath = <<"to_ui">>
    /\ RLess(RInt(250), cvOrig)
    /\ RLess(RInt(80), cvVal)

(***************************************************************************)
(* Properties of analyze_polynomial.                                       *)
(***************************************************************************)
\* an exponent vector over the input ratings of total degree 1 or 2
IsMonomial(e) ==
    /\ DOMAIN e = DOMAIN INPUT_COLS
    /\ \A j \in DOMAIN e : e[j] \in 0..2
    /\ SumSeq(e) \in {1, 2}

\* C14: every polynomial fit that run_analysis reports expanded the 5 input
\* ratings to exactly the monomials of total degree 1 and 2, each once: the
\* 5 single ratings, the 10 products of two different ratings and the 5
\* squares, 20 features without the constant one; it was fitted by a ridge
\* model of strength alpha = 1, not 0, that fits its own intercept.
C14_PolynomialIsDegreeTwoRidge ==
    \A i \in DOMAIN out :
          out[i].ev = "polynomial" =>
            LET p == AnalyzePolynomial(df, out[i].stat)
                singles  == {e \in Range(p.poly) : SumSeq(e) = 1}
                squares  == {e \in Range(p.poly) : \E j \in DOMAIN e : e[j] = 2}
                products == {e \in Range(p.poly) :
                                SumSeq(e) = 2 /\ \A j \in DOMAIN e : e[j] <= 1}
            IN  /\ p.ok
                /\ out[i].data = p.model
                /\ p.model.alpha = 1
                /\ p.model.alpha # 0
                /\ p.model.fit_intercept
                /\ p.model.n_features = 20
                /\ Len(p.poly) = 20
                /\ \A e \in Range(p.poly) : IsMonomial(e)
                /\ Cardinality(Range(p.poly)) = Len(p.poly)
                /\ Cardinality(singles) = 5
                /\ Cardinality(products) = 10
                /\ Cardinality(squares) = 5
                /\ [j \in DOMAIN INPUT_COLS |-> 0] \notin Range(p.poly)

\* run_analysis reported the polynomial fit of all five output stats on a
\* table of two rows
C14_Witness ==
    /\ pc = "summary"
    /\ Len(df.data) = 2
    /\ \A j \in DOMAIN OUTPUT_COLS : Printed("polynomial", OUTPUT_COLS[j])

(***************************************************************************)
(* Properties of analyze_linear on an exactly linear table.                *)
(***************************************************************************)
\* the table has the input ratings and output column y, all finite, with
\* y = 2 * stuff + 3 in every row and the other four ratings constant
ExactLine(frame, y) ==
    /\ HasCols(frame, INPUT_COLS \o <<y>>)
    /\ Len(frame.data) >= 1
    /\ \A c \in Range(INPUT_COLS) \cup {y} : Finite(Column(frame, c))
    /\ \A i \in DOMAIN frame.data :
          Column(frame, y)[i].v = 2 * Column(frame, "stuff")[i].v + 3
    /\ \A c \in Range(INPUT_COLS) \ {"stuff"} :
          \A i \in DOMAIN frame.data :
              Column(frame, c)[i] = Column(frame, c)[1]

\* "stuff" takes at least two values in the table
StuffVaries(frame) ==
    \E i, j \in DOMAIN frame.data :
        Column(frame, "stuff")[i] # Column(frame, "stuff")[j]

\* the result run_analysis stored for stat y recovers the line
RecoversLine(y) ==
    /\ DictGet(models, y).intercept_ = RInt(3)
    /\ DictGet(models, y).coef_ = <<RInt(2), RInt(0), RInt(0), RInt(0), RInt(0)>>
    /\ \E i \in DOMAIN results :
          results[i].stat = y /\ results[i].r2 = FNum(RInt(1))

\* C15 as stated: on any table where "ip" is 2 * stuff + 3 exactly and the
\* other four ratings are constant, the linear fit of "ip" has intercept 3,
\* coefficients [2, 0, 0, 0, 0] and R2 = 1.
C15_RecoversLine ==
    (ExactLine(df, "ip") /\ "ip" \in DictKeys(models)) => RecoversLine("ip")

\* C15, amended: the same, on the tables in which "stuff" takes at least
\* two values.
C15_RecoversLineWhenStuffVaries ==
    (ExactLine(df, "ip") /\ StuffVaries(df) /\ "ip" \in DictKeys(models))
        => RecoversLine("ip")

\* the fit of "ip" is stored for a two-row table on the line with two
\* values of "stuff"
C15_Witness ==
    /\ pc = "summary"
    /\ Len(df.data) = 2
    /\ ExactLine(df, "ip")
    /\ StuffVaries(df)
    /\ "ip" \in DictKeys(models)

(***************************************************************************)
(* Properties of the data collector (under SpecOcr).                       *)
(***************************************************************************)
\* a file that existed got longer in this step
FileGrew ==
    \E p \in CsvPaths :
        disk[p].exists /\ Len(disk'[p].lines) > Len(disk[p].lines)

\* a log_entry call runs its last lines and returns in this step
LogEntryCompletes ==
    \E t \in Threads : Running(t, "append") /\ stacks' = Popped(t)

\* the values log_entry captured: one per region, in region order
CapturedValues == [i \in DOMAIN regions |-> regions[i].last_value]

\* C16: a step in which a log_entry completes, in which entry_count changes
\* or in which a file grows is one and the same step: it appends exactly
\* one line to the CSV file, the row of the OCR values of the regions in
\* region order, changes no other line or file, and adds one to
\* entry_count.  So entry_count is always the number of rows log_entry
\* appended in the session.
C16_LogEntryAppendsOneRow ==
    /\ [](entry_count = Len(logged))
    /\ [][(LogEntryCompletes \/ entry_count' # entry_count \/ FileGrew) =>
            /\ LogEntryCompletes
            /\ entry_count' = entry_count + 1
            /\ disk[csv_file].exists
            /\ disk' = [disk EXCEPT ![csv_file].lines =
                          Append(disk[csv_file].lines, WriteRow(CapturedValues))]
            /\ Len(CapturedValues) = Len(regions)
            /\ ReadRows(disk'[csv_file].lines)[Len(disk'[csv_file].lines)]
                  = CapturedValues
            /\ logged' = Append(logged, [path |-> csv_file,
                                         row |-> CapturedValues])]_vars

\* two entries were logged for two regions, the second with the values of
\* the second screen, and the file ends with that row
C16_Witness ==
    /\ entry_count = 2
    /\ Len(regions) = 2
    /\ logged[2].row = <<<<"1", "5">>, <<"4", ".", "2">>>>
    /\ disk[csv_file].lines # <<>>
    /\ ReadRows(disk[csv_file].lines)[Len(disk[csv_file].lines)] = logged[2].row

\* the rows log_entry appended to path p, oldest first
LoggedTo(p) ==
    LET mine == SelectSeq(logged, LAMBDA e : e.path = p)
    IN  [i \in DOMAIN mine |-> mine[i].row]

\* the rows of part are among the rows of whole, in the same order
RECURSIVE IsSubsequence(_, _)
IsSubsequence(part, whole) ==
    IF part = <<>> THEN TRUE
    ELSE IF whole = <<>> THEN FALSE
    ELSE IF Head(part) = Head(whole) THEN IsSubsequence(Tail(part), Tail(whole))
    ELSE IsSubsequence(part, Tail(whole))

\* C17: every row log_entry appended is still in its file, in the order of
\* logging, whatever was done since.
C17_LoggedRowsAreKept ==
    \A p \in CsvPaths : IsSubsequence(LoggedTo(p), ReadRows(disk[p].lines))

\* C18: after every completed log_entry the first row of the CSV file is
\* the list of the names of the current regions.
C18_HeaderNamesRegions ==
    [][entry_count' = entry_count + 1 =>
          /\ disk'[csv_file'].lines # <<>>
          /\ ReadRows(disk'[csv_file'].lines)[1] = RegionNames(regions')]_vars

\* C19: the tree has one row per region, row i showing the name and the
\* geometry of regions[i].
C19_TreeAlignedWithRegions ==
    /\ Len(tree) = Len(regions)
    /\ \A i \in DOMAIN tree :
          /\ tree[i].name = regions[i].name
          /\ tree[i].x = regions[i].x
          /\ tree[i].y = regions[i].y
          /\ tree[i].width = regions[i].width
          /\ tree[i].height = regions[i].height

\* the log_entry calls that have checked the headers and not yet appended
\* their row
MidUpdate ==
    {c \in Threads \X (1..MaxEntries + 1) :
        c[2] \in DOMAIN stacks[c[1]] /\ stacks[c[1]][c[2]].pc = "append"}

\* C20: log_entry never runs on the keyboard listener's thread; a press of
\* F5 adds exactly one log_entry to the callbacks Tk is to run and changes
\* nothing else; a scheduled callback is taken by Tk's loop alone, which
\* starts one log_entry for it.  At most one log_entry is between its
\* header check and its append, it is the innermost call of Tk's thread,
\* and until it has appended its row no step changes a file, the current
\* file or the regions: the CSV updates of two calls never interleave.
C20_F5RunsOnTkLoop ==
    /\ [](stacks["kb"] = <<>>)
    /\ [](Cardinality(MidUpdate) <= 1)
    /\ [](MidUpdate # {} => Running("tk", "append"))
    /\ [][/\ after' > after =>
               /\ after' = after + 1
               /\ UNCHANGED <<regions, tree, csv_file, entry_count, disk,
                              stacks, logged>>
          /\ after' < after =>
               /\ after' = after - 1
               /\ stacks'["kb"] = stacks["kb"]
               /\ Len(stacks'["tk"]) <= Len(stacks["tk"]) + 1
               /\ UNCHANGED <<regions, tree, csv_file, entry_count, disk>>
          /\ MidUpdate # {} =>
               /\ csv_file' = csv_file
               /\ regions' = regions
               /\ disk' # disk =>
                     /\ stacks' = Popped("tk")
                     /\ entry_count' = entry_count + 1]_vars

\* F5 was pressed while a log_entry that Tk's loop started inside the file
\* dialog of another log_entry is between its header check and its append
C20_Witness ==
    /\ after = 1
    /\ Len(stacks["tk"]) = 2
    /\ stacks["tk"][1].pc = "dialog"
    /\ stacks["tk"][2].pc = "append"
    /\ stacks["kb"] = <<>>

\* a log_entry call leaves the file dialog and returns in this step
DialogReturns ==
    \E t \in Threads :
        Running(t, "dialog") /\ Len(stacks'[t]) < Len(stacks[t])

RunAnalysisReturned == pc = "summary"

\* the output stats that are columns of the data, in OUTPUT_COLS order
PresentStats == SelectSeq(OUTPUT_COLS, LAMBDA c : c \in Range(df.columns))

\* what run_analysis printed first for each output stat it came to
StatHeadings == SelectSeq(out, LAMBDA e : e.ev \in {"skipping", "analyzing"})

\* C22: when run_analysis has returned, self.models and self.formulas have
\* the same keys, the output stats that are columns of the data, in
\* OUTPUT_COLS order; each stored model is the linear model fitted for its
\* stat and each stored formula the formula of that model; results has one
\* entry per such stat in OUTPUT_COLS order, with the linear r2 and mae and
\* the stored formula; and every output stat got its turn: "Skipping" was
\* printed for an absent column, and the stats after it were analysed.
C22_RunAnalysisStoresLinearModels ==
    RunAnalysisReturned =>
        /\ [i \in DOMAIN models |-> models[i].key] = PresentStats
        /\ [i \in DOMAIN formulas |-> formulas[i].key] = PresentStats
        /\ [i \in DOMAIN results |-> results[i].stat] = PresentStats
        /\ \A i \in DOMAIN PresentStats :
              LET lin == AnalyzeLinear(df, PresentStats[i])
              IN  /\ lin.ok
                  /\ models[i].val = lin.model
                  /\ DOMAIN models[i].val = {"coef_", "intercept_"}
                  /\ Len(models[i].val.coef_) = Len(INPUT_COLS)
                  /\ formulas[i].val = FormatFormula(lin.model, PresentStats[i])
                  /\ results[i] = [stat |-> PresentStats[i], r2 |-> lin.r2,
                                   mae |-> lin.mae, formula |-> formulas[i].val]
        /\ StatHeadings =
              [i \in DOMAIN OUTPUT_COLS |->
                  Ev(IF OUTPUT_COLS[i] \in Range(df.columns)
                     THEN "analyzing" ELSE "skipping", OUTPUT_COLS[i], 0)]

\* run_analysis returned for a file without the "hr" column: "hr" was
\* skipped, the stat before it and the three after it have their models
C22_Witness ==
    /\ RunAnalysisReturned
    /\ "hr" \notin Range(df.columns)
    /\ [i \in DOMAIN models |-> models[i].key] = <<"hits allowed", "bb", "k", "ip">>
    /\ Len(results) = 4
    /\ \E i \in DOMAIN out : out[i].ev = "skipping" /\ out[i].stat = "hr"

(***************************************************************************)
(* Properties of the merged snapshot (under SpecMerge).                    *)
(***************************************************************************)
\* the player ids a snapshot's files name
IdsOf(batters_file, pitchers_file) ==
    {IntCell(batters_file[i].ID) : i \in DOMAIN batters_file}
        \cup {IntCell(pitchers_file[i].ID) : i \in DOMAIN pitchers_file}

\* C23: when the merge loops are over, merged has one entry per player_id
\* of either snapshot and no other; a player of the 2010 snapshot has the
\* 2010 record, in both snapshots or not, and a player of the 2017 snapshot
\* alone the 2017 record.  The snapshots themselves hold the players their
\* files name.
C23_MergedIsUnionPreferring2010 ==
    mgPc = "merged" =>
        /\ DictKeys(snap_2010) =
              IdsOf(snap_files.batters_2010, snap_files.pitchers_2010)
        /\ DictKeys(snap_2017) =
              IdsOf(snap_files.batters_2017, snap_files.pitchers_2017)
        /\ DictKeys(merged) = DictKeys(snap_2010) \cup DictKeys(snap_2017)
        /\ Len(merged) = Cardinality(DictKeys(merged))
        /\ \A pid \in DictKeys(snap_2010) :
              DictGet(merged, pid) = DictGet(snap_2010, pid)
        /\ \A pid \in DictKeys(snap_2017) \ DictKeys(snap_2010) :
              DictGet(merged, pid) = DictGet(snap_2017, pid)

\* the merge is over for snapshots that share a player, whose records
\* differ, and of which the 2017 one has a player of its own
C23_Witness ==
    /\ mgPc = "merged"
    /\ \E pid \in DictKeys(snap_2010) \cap DictKeys(snap_2017) :
          /\ DictGet(snap_2010, pid) # DictGet(snap_2017, pid)
          /\ DictGet(merged, pid).age = 20
    /\ DictKeys(snap_2017) \ DictKeys(snap_2010) # {}

(***************************************************************************)
(* Properties of career WAR (under SpecWar).                               *)
(***************************************************************************)
\* the rows of player pid in the files of 2000-2021 of a directory, each
\* named by its year and its place in the file, whose cell of playing time
\* (column "ip" or "pa") is a number above zero
RowsPlayed(dir, column, pid) ==
    {r \in (2000..2021) \X (1..(MaxStatRows + 1)) :
        /\ r[1] \in DOMAIN dir
        /\ dir[r[1]].exists
        /\ r[2] \in DOMAIN dir[r[1]].rows
        /\ LET row == dir[r[1]].rows[r[2]]
           IN  /\ IsIntText(row.player_id) /\ IntText(row.player_id) = pid
               /\ IsFloatText(row[column])
               /\ RLess(RInt(0), FloatText(row[column]))}

\* the sum of the "war" cells of a set of rows of a directory
RECURSIVE WarOfRows(_, _)
WarOfRows(dir, rs) ==
    IF rs = {} THEN RInt(0)
    ELSE LET r == CHOOSE x \in rs : TRUE
         IN  RAdd(FloatText(dir[r[1]].rows[r[2]].war),
                  WarOfRows(dir, rs \ {r}))

\* the player ids of the stats files and the snapshot
KnownPlayers == {7, 8, 9}

\* table war, and table seasons where there is one, hold for every player
\* the sum and the number of the rows played of the directory
IsCareerTable(war, seasons, counted, dir, column) ==
    /\ DictKeys(war) \subseteq KnownPlayers
    /\ \A pid \in KnownPlayers :
          LET played == RowsPlayed(dir, column, pid)
          IN  /\ DictGetOr(war, pid, RInt(0)) = WarOfRows(dir, played)
              /\ pid \in DictKeys(war) <=> played # {}
              /\ counted =>
                    /\ DictGetOr(seasons, pid, 0) = Cardinality(played)
                    /\ DictKeys(seasons) = DictKeys(war)

\* C24: once the tables are built, for every player_id the career pitching
\* WAR is the sum of "war" over exactly the pitching rows of the files of
\* 2000-2021 with ip > 0 and the career batting WAR the sum over the batting
\* rows with pa > 0, in analyze_2010.py, where the season counts are the
\* numbers of those rows, and in what load_career_war of analyze_merged.py
\* returns; and in all_players of analyze_2010.py every player with ever_mlb
\* false has WAR 0.
C24_CareerWarSumsRowsPlayed ==
    /\ warPc \in {"pitchers_2010", "batters_2010", "career_war", "loaded",
                  "aborted"} =>
          /\ IsCareerTable(pitching_war, pitching_seasons, TRUE,
                           stat_files.mlb, "ip")
          /\ IsCareerTable(batting_war, batting_seasons, TRUE,
                           stat_files.mlb_batting, "pa")
    /\ warPc = "loaded" =>
          /\ career_war.ok
          /\ IsCareerTable(career_war.pitching_war, <<>>, FALSE,
                           stat_files.mlb, "ip")
          /\ IsCareerTable(career_war.batting_war, <<>>, FALSE,
                           stat_files.mlb_batting, "pa")
    /\ \A i \in DOMAIN all_players :
          /\ all_players[i].ever_mlb <=> all_players[i].mlb_seasons > 0
          /\ ~all_players[i].ever_mlb => all_players[i].war = RInt(0)

\* both scripts have their tables; pitcher 7 has a row of 2000 with a WAR
\* of -0.5 and no innings and is in all_players with ever_mlb false, and
\* another player is there with a WAR of 3.1
C24_Witness ==
    /\ warPc = "loaded"
    /\ stat_files.mlb[2000].exists
    /\ \E k \in DOMAIN stat_files.mlb[2000].rows :
          stat_files.mlb[2000].rows[k] =
              StatRow(<<"7">>, <<"-", "0", ".", "5">>, <<"0">>)
    /\ \E i \in DOMAIN all_players :
          /\ all_players[i].id = 7
          /\ ~all_players[i].ever_mlb
    /\ \E j \in DOMAIN all_players :
          /\ all_players[j].ever_mlb
          /\ all_players[j].war = Rat(31, 10)

(***************************************************************************)
(* Properties of the scrape of the draft pages (under SpecScrape).         *)
(***************************************************************************)
\* the picks of year y in all_picks, in their order
PicksOfYear(y) == SelectSeq(all_picks, LAMBDA p : p.year = y)

\* the fetch of this step failed
FetchFails ==
    /\ Len(fetched') = Len(fetched) + 1
    /\ fetched'[Len(fetched')].answer = "error"

\* C25: the years are requested once each, in order from 2008, whatever
\* the answers were; an iteration whose fetch fails prints the error and
\* FAILED for its year, leaves all_picks as it is and goes on to the next
\* year; so at any time all_picks holds, for every year whose page was
\* fetched, the picks of that page, and none for a year whose fetch failed;
\* and the loop ends after 2020, all thirteen years requested.
C25_FailedYearIsSkipped ==
    /\ [](/\ Len(fetched) = year - 2008
          /\ \A i \in DOMAIN fetched : fetched[i].year = 2008 + i - 1)
    /\ [](\A i \in DOMAIN fetched :
             PicksOfYear(fetched[i].year) =
                IF fetched[i].answer = "error" THEN <<>>
                ELSE PicksOfPage(fetched[i].year, Pages[fetched[i].answer]))
    /\ [](scPc = "scraped" => Len(fetched) = 13 /\ year = 2021)
    /\ [][FetchFails =>
            /\ all_picks' = all_picks
            /\ year' = year + 1
            /\ Len(scOut') = Len(scOut) + 2
            /\ SubSeq(scOut', 1, Len(scOut)) = scOut
            /\ scOut'[Len(scOut) + 1].ev = "ERROR"
            /\ scOut'[Len(scOut) + 1].year = year
            /\ scOut'[Len(scOut) + 2].ev = "FAILED"
            /\ scOut'[Len(scOut) + 2].year = year]_vars

\* the run is over; a year with picks was followed by a year whose fetch
\* failed and that by another year with picks, and all_picks has the picks
\* of both
C25_Witness ==
    /\ scPc = "scraped"
    /\ \E i, j, k \in DOMAIN fetched :
          /\ i < j /\ j < k
          /\ fetched[i].answer = "A"
          /\ fetched[j].answer = "error"
          /\ fetched[k].answer = "B"
          /\ PicksOfYear(fetched[i].year) # <<>>
          /\ PicksOfYear(fetched[k].year) # <<>>
          /\ PicksOfYear(fetched[j].year) = <<>>

\* the answer to the request for year y
AnswerFor(y) == fetched[y - 2008 + 1].answer

\* the cell spells an integer, a decimal number
SpellsInt(cell) == cell.kind = "text" /\ IsIntText(cell.text)

SpellsFloat(cell) == cell.kind = "text" /\ IsFloatText(cell.text)

\* the row has what a pick needs
RowQualifies(tds) ==
    /\ \E c \in DOMAIN tds : tds[c].kind = "link"
    /\ Len(tds) >= 10
    /\ SpellsInt(tds[1]) /\ IntText(tds[1].text) > 0
    /\ SpellsInt(tds[3]) /\ IntText(tds[3].text) > 0

\* pick p has the values of the cells of the row, a cell that spells no
\* number giving 0
PickIsOfRow(p, tds) ==
    /\ RowQualifies(tds)
    /\ \E c \in DOMAIN tds :
          /\ tds[c].kind = "link"
          /\ p.player_id = ParseDigits(tds[c].pid)
    /\ p.round = IntText(tds[1].text)
    /\ p.oa_pick = IntText(tds[3].text)
    /\ p.pick = IF SpellsInt(tds[2]) THEN IntText(tds[2].text) ELSE 0
    /\ p.age = IF SpellsInt(tds[7]) THEN IntText(tds[7].text) ELSE 0
    /\ p.bat_war = IF SpellsFloat(tds[8]) THEN FloatText(tds[8].text)
                   ELSE RInt(0)
    /\ p.pitch_war = IF SpellsFloat(tds[9]) THEN FloatText(tds[9].text)
                     ELSE RInt(0)
    /\ p.war = IF SpellsFloat(tds[10]) THEN FloatText(tds[10].text)
               ELSE RInt(0)

\* C26: every pick of all_picks comes from a row of the page fetched for
\* its year that has a player link and at least 10 cells and whose round
\* and overall pick are integers above zero; its numbers are those of the
\* row's cells, 0 for an integer cell and 0.0 for a WAR cell that spells no
\* number; and every other row is skipped: a year has as many picks as its
\* page has such rows.
C26_PicksComeFromFullRows ==
    /\ \A i \in DOMAIN all_picks :
          LET p == all_picks[i]
          IN  /\ p.year \in 2008..2020
              /\ p.year < year
              /\ AnswerFor(p.year) # "error"
              /\ \E r \in DOMAIN Pages[AnswerFor(p.year)] :
                    PickIsOfRow(p, Pages[AnswerFor(p.year)][r])
    /\ \A i \in DOMAIN fetched :
          fetched[i].answer # "error" =>
              Len(PicksOfYear(fetched[i].year)) =
                 Cardinality({r \in DOMAIN Pages[fetched[i].answer] :
                                RowQualifies(Pages[fetched[i].answer][r])})

\* page B, with a row without link, a row of nine cells and a row whose age
\* and WARs are no numbers, gave one pick, with age 0 and WAR 0.0; page C,
\* whose rows have round "1S", round 0 and a blank overall pick, gave none
C26_Witness ==
    /\ \E i \in DOMAIN all_picks :
          /\ all_picks[i].player_id = 102
          /\ all_picks[i].age = 0
          /\ all_picks[i].war = RInt(0)
          /\ all_picks[i].pitch_war = Rat(-3, 2)
          /\ Len(PicksOfYear(all_picks[i].year)) = 1
    /\ \E j \in DOMAIN fetched :
          /\ fetched[j].answer = "C"
          /\ PicksOfYear(fetched[j].year) = <<>>

(***************************************************************************)
(* Properties of the statistics lines.                                     *)
(***************************************************************************)
\* the median of a non-empty list: the middle value of the sorted list for
\* an odd count, the mean of the two middle values for an even count
MedianOf(vals) ==
    LET s == Sorted(vals)
        n == Len(vals)
    IN  IF n % 2 = 1 THEN s[(n + 1) \div 2]
        ELSE RDiv(RAdd(s[n \div 2], s[n \div 2 + 1]), RInt(2))

\* C28: the median that stats_line, describe and the trait line report for a
\* non-empty list of WAR values is the median of the list, the middle value
\* of the sorted list for an odd count and the mean of the two middle values
\* for an even count, printed to the decimals of the line
C28_ReportedMedianIsTheMedian ==
    \A i \in DOMAIN stOut :
        stOut[i].n > 0 =>
            stOut[i].med = FormatFixed(MedianOf(WarsOf(group)),
                                       stOut[i].med.dec)

(***************************************************************************)
(* Properties of analyze_drafts.py.                                        *)
(***************************************************************************)
\* C27: every average or percentage of analyze_drafts.py is computed over a
\* non-empty group: a line that prints an average or a rate counts at least
\* one player, and the script never ends with a division by zero, whatever
\* the exports hold
C27_NoDivisionByEmptyGroup ==
    /\ adExc # "ZeroDivisionError"
    /\ \A i \in DOMAIN adOut :
          (adOut[i].avg # Blank \/ adOut[i].rates # <<>>) => adOut[i].n > 0

====
